---- MODULE Spec2Model ----
(***************************************************************************)
(* A model of praatio's interval tiers (src/praatio/tgio.py).              *)
(*                                                                         *)
(* Times are integers (the source converts them to floats; every value the *)
(* model computes is an exact small integer, on which float arithmetic is  *)
(* exact).  A label is a sequence of one-character strings, compared the   *)
(* way Python compares str: lexicographically by code point.  An entry is  *)
(* a record that keeps, next to start/stop/label, the Python type of the   *)
(* object that holds it ("tuple" or "list"): list.sort() and == depend on  *)
(* it.                                                                     *)
(***************************************************************************)
EXTENDS Integers, Sequences, FiniteSets, TLC

VARIABLES
    py,             \* the interpreter the library runs on, "py2" or "py3"
    name,           \* TextgridTier.name
    entryList,      \* TextgridTier.entryList
    minTimestamp,   \* TextgridTier.minTimestamp
    maxTimestamp,   \* TextgridTier.maxTimestamp
    tg,             \* a Textgrid: tierNameList, tierDict, minTimestamp, maxTimestamp
    result,         \* the Textgrid a method of tg returned, and which of its
                    \* tiers are the very objects tg holds
    ret,            \* the last call: its arguments, locals, exception, result
    calls           \* the number of calls made so far

vars == <<py, name, entryList, minTimestamp, maxTimestamp, tg, result, ret, calls>>

tierVars == <<name, entryList, minTimestamp, maxTimestamp>>

----------------------------------------------------------------------------
(* Bounds of the model *)

MaxTime == 3

MaxLen == 2

MaxCalls == 2

Times == 0 .. MaxTime

\* the library supports both interpreters (tgio.py:320-325 probes `unicode`)
PyBuilds == {"py2", "py3"}

\* an optional argument: <<>> is None, <<v>> is the value v
None == << >>

Some(v) == <<v>>

Max2(a, b) == IF a >= b THEN a ELSE b

Min2(a, b) == IF a <= b THEN a ELSE b

RECURSIVE SeqMin(_)
SeqMin(s) == IF Len(s) = 1 THEN s[1] ELSE Min2(s[1], SeqMin(Tail(s)))

RECURSIVE SeqMax(_)
SeqMax(s) == IF Len(s) = 1 THEN s[1] ELSE Max2(s[1], SeqMax(Tail(s)))

----------------------------------------------------------------------------
(* Labels *)

\* code points of the characters the model uses
CharOrd ==
    (" " :> 32) @@ ("-" :> 45) @@ ("2" :> 50) @@ ("a" :> 97) @@ ("b" :> 98) @@ ("c" :> 99)

\* Python's str < str
RECURSIVE StrLess(_, _)
StrLess(x, y) ==
    IF Len(y) = 0 THEN FALSE
    ELSE IF Len(x) = 0 THEN TRUE
    ELSE IF x[1] # y[1] THEN CharOrd[x[1]] < CharOrd[y[1]]
    ELSE StrLess(Tail(x), Tail(y))

RECURSIVE LStrip(_)
LStrip(s) == IF Len(s) > 0 /\ s[1] = " " THEN LStrip(Tail(s)) ELSE s

RECURSIVE RStrip(_)
RStrip(s) ==
    IF Len(s) > 0 /\ s[Len(s)] = " " THEN RStrip(SubSeq(s, 1, Len(s) - 1)) ELSE s

\* str.strip()
Strip(s) == RStrip(LStrip(s))

\* sep.join(labels)
RECURSIVE Join(_, _)
Join(sep, labels) ==
    IF Len(labels) = 0 THEN << >>
    ELSE IF Len(labels) = 1 THEN labels[1]
    ELSE labels[1] \o sep \o Join(sep, Tail(labels))

\* str.lower() on the collision codes the model passes
Lower(code) ==
    CASE code = "REPLACE" -> "replace"
      [] code = "Merge" -> "merge"
      [] OTHER -> code

----------------------------------------------------------------------------
(* Entries and Python's orderings on them *)

Tuple(start, stop, label) ==
    [start |-> start, stop |-> stop, label |-> label, kind |-> "tuple"]

List(start, stop, label) ==
    [start |-> start, stop |-> stop, label |-> label, kind |-> "list"]

\* x < y for two sequences of the same Python type: element by element
SameKindLess(x, y) ==
    IF x.start # y.start THEN x.start < y.start
    ELSE IF x.stop # y.stop THEN x.stop < y.stop
    ELSE StrLess(x.label, y.label)

\* x < y on Python 2, where objects of different types order by type name
\* and "list" < "tuple"
Py2Less(x, y) ==
    IF x.kind # y.kind THEN x.kind = "list" ELSE SameKindLess(x, y)

\* on Python 3 a list and a tuple do not compare: list.sort() of a list of two
\* or more entries that holds both raises TypeError
MixedKinds(s) == \E i, j \in 1 .. Len(s) : s[i].kind # s[j].kind

SortRaises(s) == py = "py3" /\ Len(s) >= 2 /\ MixedKinds(s)

RECURSIVE InsertSorted(_, _)
InsertSorted(e, s) ==
    IF Len(s) = 0 THEN <<e>>
    ELSE IF Py2Less(e, s[1]) THEN <<e>> \o s
    ELSE <<s[1]>> \o InsertSorted(e, Tail(s))

\* list.sort() when no comparison raises (stable; entries that compare equal
\* are the same value)
RECURSIVE Sorted(_)
Sorted(s) ==
    IF Len(s) = 0 THEN << >>
    ELSE InsertSorted(s[Len(s)], Sorted(SubSeq(s, 1, Len(s) - 1)))

\* the orders list.sort() may leave behind when a comparison raises: "the list
\* will likely be left in a partially modified state", some rearrangement
Rearrangements(s) ==
    {[i \in 1 .. Len(s) |-> s[p[i]]] :
        p \in {q \in [1 .. Len(s) -> 1 .. Len(s)] :
                  \A i, j \in 1 .. Len(s) : i # j => q[i] # q[j]}}

----------------------------------------------------------------------------
(* intervalOverlapCheck *)

\* a check in which a threshold that is set must be met
intervalOverlapCheckVetoing(interval, cmprInterval, pNum, pDen, timeThreshold, boundaryInclusive) ==
    LET overlapTime == Max2(0, Min2(interval.stop, cmprInterval.stop)
                                 - Max2(interval.start, cmprInterval.start))
        totalTime == Max2(interval.stop, cmprInterval.stop) - Min2(interval.start, cmprInterval.start)
    IN \/ boundaryInclusive /\ (interval.start = cmprInterval.stop \/ interval.stop = cmprInterval.start)
       \/ /\ overlapTime > 0
          /\ pNum > 0 => overlapTime * pDen >= pNum * totalTime
          /\ timeThreshold > 0 => overlapTime > timeThreshold

\* a check that looks for a shared boundary on one side only
intervalOverlapCheckOneSided(interval, cmprInterval, pNum, pDen, timeThreshold, boundaryInclusive) ==
    \/ Min2(interval.stop, cmprInterval.stop) - Max2(interval.start, cmprInterval.start) > 0
    \/ boundaryInclusive /\ interval.start = cmprInterval.stop

\* percentThreshold and timeThreshold are numbers; boundaryInclusive a flag.
\* overlapTime / totalTime >= percentThreshold is compared cross-multiplied,
\* percentThreshold being the fraction pNum / pDen.
intervalOverlapCheck(interval, cmprInterval, pNum, pDen, timeThreshold, boundaryInclusive) ==
    LET startTime == interval.start
        endTime == interval.stop
        cmprStartTime == cmprInterval.start
        cmprEndTime == cmprInterval.stop
        overlapTime == Max2(0, Min2(endTime, cmprEndTime)
                                 - Max2(startTime, cmprStartTime))
        overlapFlag == overlapTime > 0
        boundaryOverlapFlag ==
            boundaryInclusive /\ (startTime = cmprEndTime \/ endTime = cmprStartTime)
        totalTime == Max2(endTime, cmprEndTime) - Min2(startTime, cmprStartTime)
        percentOverlapFlag ==
            pNum > 0 /\ overlapFlag /\ overlapTime * pDen >= pNum * totalTime
        timeOverlapFlag ==
            timeThreshold > 0 /\ overlapFlag /\ overlapTime > timeThreshold
    IN overlapFlag \/ boundaryOverlapFlag \/ percentOverlapFlag \/ timeOverlapFlag

----------------------------------------------------------------------------
(* IntervalTier.__init__ *)

\* the constructor's outcome: exc is "none" and the fields are the new tier's,
\* or exc names the exception and no tier exists
NoTier(exc) ==
    [exc |-> exc, name |-> "", entryList |-> << >>, minTimestamp |-> 0, maxTimestamp |-> 0]

IntervalTierInit(nm, entries, minT, maxT) ==
    LET n == Len(entries)
        stripped == [i \in 1 .. n |-> Tuple(entries[i].start, entries[i].stop, Strip(entries[i].label))]
        minTimeList == [i \in 1 .. n |-> entries[i].start] \o minT
        maxTimeList == [i \in 1 .. n |-> entries[i].stop] \o maxT
    IN IF \E i \in 1 .. n : ~(entries[i].start < entries[i].stop)
       THEN NoTier("AssertionError")
       ELSE IF Len(minTimeList) = 0 \/ Len(maxTimeList) = 0
       THEN NoTier("TimelessTextgridTierException")
       ELSE [exc |-> "none", name |-> nm, entryList |-> stripped, minTimestamp |-> SeqMin(minTimeList), maxTimestamp |-> SeqMax(maxTimeList)]

----------------------------------------------------------------------------
(* TextgridTier.deleteEntry, IntervalTier.getEntries *)

\* entryList.pop(entryList.index(entry)): the first entry equal to it goes
RECURSIVE deleteEntry(_, _)
deleteEntry(list, entry) ==
    IF Len(list) = 0 THEN list
    ELSE IF list[1] = entry THEN Tail(list)
    ELSE <<list[1]>> \o deleteEntry(Tail(list), entry)

\* for e in matches: deleteEntry(e)
RECURSIVE DeleteEach(_, _)
DeleteEach(list, matches) ==
    IF Len(matches) = 0 THEN list
    ELSE DeleteEach(deleteEntry(list, matches[1]), Tail(matches))

Reverse(s) == [i \in 1 .. Len(s) |-> s[Len(s) + 1 - i]]

\* getEntries hands boundaryInclusive to intervalOverlapCheck as its third
\* positional argument, which is percentThreshold: False counts as 0, True as 1
getEntries(list, start, stop, boundaryInclusive) ==
    LET targetEntry == Tuple(start, stop, << >>)
        percentThreshold == IF boundaryInclusive THEN 1 ELSE 0
    IN SelectSeq(list, LAMBDA entry : intervalOverlapCheck(entry, targetEntry, percentThreshold, 1, 0, FALSE))

\* self.entryList.sort() as the last statement of a method that has reached
\* it with exception exc pending ("none" on the normal path)
SortOutcomes(list, matchList) ==
    IF SortRaises(list)
    THEN {[entryList |-> r, exc |-> "TypeError", matchList |-> matchList] : r \in Rearrangements(list)}
    ELSE {[entryList |-> Sorted(list), exc |-> "none", matchList |-> matchList]}

Raise(list, exc, matchList) == {[entryList |-> list, exc |-> exc, matchList |-> matchList]}

----------------------------------------------------------------------------
(* IntervalTier.insertEntry *)

\* the fused entry of the 'merge' policy, from matchList with the new entry
\* appended and sorted: a Python list
MergedEntry(sortedMatchList) ==
    LET n == Len(sortedMatchList)
    IN List(SeqMin([i \in 1 .. n |-> sortedMatchList[i].start]),
            SeqMax([i \in 1 .. n |-> sortedMatchList[i].stop]),
            Join(<<"-">>, [i \in 1 .. n |-> sortedMatchList[i].label]))

\* an insertEntry that does not look for collisions
insertEntryUnchecked(list, entry, collisionCode) == SortOutcomes(Append(list, entry), << >>)

\* the outcomes of insertEntry(entry, warnFlag, collisionCode) on a tier whose
\* entry list is list: the entry list it leaves and the exception it raises.
\* warnFlag only decides whether a warning is printed.
insertEntry(list, entry, collisionCode) ==
    LET matchList == getEntries(list, entry.start, entry.stop, FALSE)
        removed == DeleteEach(list, matchList)
        merging == Append(matchList, entry)
    IN IF Len(matchList) = 0
       THEN SortOutcomes(Append(list, entry), matchList)
       ELSE IF collisionCode = None
       THEN Raise(list, "AttributeError", matchList)
       ELSE IF Lower(collisionCode[1]) = "replace"
       THEN SortOutcomes(Append(removed, entry), matchList)
       ELSE IF Lower(collisionCode[1]) = "merge"
       THEN IF SortRaises(merging)
            THEN Raise(removed, "TypeError", matchList)
            ELSE SortOutcomes(Append(removed, MergedEntry(Sorted(merging))), matchList)
       ELSE Raise(list, "TextgridCollisionException", matchList)

----------------------------------------------------------------------------
(* IntervalTier.eraseInterval *)

\* what 'truncate' appends after the matches are deleted
TruncateRemnants(matchList, startTime, endTime) ==
    LET first == matchList[1]
        last == matchList[Len(matchList)]
        left == Tuple(first.start, startTime, first.label)
        right == Tuple(endTime, last.stop, last.label)
    IN IF Len(matchList) > 1
       THEN (IF first.start < startTime THEN <<left>> ELSE << >>)
            \o (IF last.stop > endTime THEN <<right>> ELSE << >>)
       ELSE IF last.stop > endTime THEN <<right>>
       ELSE IF first.start < startTime THEN <<left>>
       ELSE << >>

eraseInterval(list, startTime, endTime, collisionCode) ==
    LET matchList == getEntries(list, startTime, endTime, FALSE)
        removed == DeleteEach(list, Reverse(matchList))
    IN IF Len(matchList) = 0
       THEN SortOutcomes(list, matchList)
       ELSE IF ~(collisionCode = Some("truncate") \/ collisionCode = Some("categorical"))
       THEN Raise(list, "AssertionError", matchList)
       ELSE IF collisionCode = Some("truncate")
       THEN SortOutcomes(removed \o TruncateRemnants(matchList, startTime, endTime), matchList)
       ELSE SortOutcomes(removed, matchList)

----------------------------------------------------------------------------
(* IntervalTier.crop *)

\* a quotient num / den, kept as the pair <<num, den>>
Fraction(num, den) == <<num, den>>

\* the locals of crop before its loop
CropLocals ==
    [newEntryList |-> << >>, cutTStart |-> 0, cutTWithin |-> 0, cutTEnd |-> 0,
     firstIntervalKeptProportion |-> Fraction(0, 1),
     lastIntervalKeptProportion |-> Fraction(0, 1)]

\* "the interval is before or after the crop region"
OutsideCropTouching(entry, cropStart, cropEnd) ==
    entry.stop < cropStart \/ entry.start > cropEnd

OutsideCrop(entry, cropStart, cropEnd) ==
    entry.stop <= cropStart \/ entry.start >= cropEnd

\* cutTStart of an entry that straddles the start of the crop region
StartCutKept(entry, cropStart) == entry.stop - cropStart

StartCut(entry, cropStart) == cropStart - entry.start

\* what a dropped entry adds to cutTWithin under strictFlag
WithinCutOverlap(entry, cropStart, cropEnd) ==
    Min2(entry.stop, cropEnd) - Max2(entry.start, cropStart)

WithinCut(entry, cropStart, cropEnd) == cropEnd - cropStart

\* one pass of crop's loop body over entry, from the locals acc
CropEntry(acc, entry, cropStart, cropEnd, strictFlag, softFlag) ==
    LET intervalStart == entry.start
        intervalEnd == entry.stop
        intervalLabel == entry.label
        keep(m) == [acc EXCEPT !.newEntryList = Append(@, m)]
        within == [acc EXCEPT !.cutTWithin = @ + WithinCut(entry, cropStart, cropEnd)]
    IN IF OutsideCrop(entry, cropStart, cropEnd)
       THEN acc
       ELSE IF intervalStart >= cropStart /\ intervalEnd <= cropEnd
       THEN keep(entry)
       ELSE IF softFlag /\ (intervalStart >= cropStart \/ intervalEnd <= cropEnd)
       THEN keep(entry)
       ELSE IF intervalStart >= cropStart /\ intervalEnd > cropEnd
       THEN [IF strictFlag THEN within
             ELSE keep(Tuple(intervalStart, cropEnd, intervalLabel))
               EXCEPT !.cutTEnd = intervalEnd - cropEnd,
                      !.lastIntervalKeptProportion =
                          Fraction(cropEnd - intervalStart, intervalEnd - intervalStart)]
       ELSE IF intervalStart < cropStart /\ intervalEnd <= cropEnd
       THEN [IF strictFlag THEN within
             ELSE keep(List(cropStart, intervalEnd, intervalLabel))
               EXCEPT !.cutTStart = StartCut(entry, cropStart),
                      !.firstIntervalKeptProportion =
                          Fraction(intervalEnd - cropStart, intervalEnd - intervalStart)]
       ELSE IF intervalStart <= cropStart /\ intervalEnd >= cropEnd
       THEN IF strictFlag THEN within
            ELSE keep(Tuple(cropStart, cropEnd, intervalLabel))
       ELSE acc

\* crop's loop over the entries left to visit
RECURSIVE CropLoop(_, _, _, _, _, _)
CropLoop(acc, rest, cropStart, cropEnd, strictFlag, softFlag) ==
    IF Len(rest) = 0 THEN acc
    ELSE CropLoop(CropEntry(acc, rest[1], cropStart, cropEnd, strictFlag, softFlag),
                  Tail(rest), cropStart, cropEnd, strictFlag, softFlag)

\* the sub-tier crop builds from the entries it kept
CropSubTier(tierName, newEntryList, cropStart, cropEnd) ==
    IntervalTierInit(tierName, newEntryList, Some(0), Some(cropEnd - cropStart))

\* crop(cropStart, cropEnd, strictFlag, softFlag): the exception raised, or the
\* sub-tier and the five accounting values returned
crop(list, tierName, cropStart, cropEnd, strictFlag, softFlag) ==
    LET acc == CropLoop(CropLocals, list, cropStart, cropEnd, strictFlag, softFlag)
        subTier == CropSubTier(tierName, acc.newEntryList, cropStart, cropEnd)
    IN [exc |-> subTier.exc, subTier |-> subTier,
        cutTStart |-> acc.cutTStart, cutTWithin |-> acc.cutTWithin, cutTEnd |-> acc.cutTEnd,
        firstIntervalKeptProportion |-> acc.firstIntervalKeptProportion,
        lastIntervalKeptProportion |-> acc.lastIntervalKeptProportion]

----------------------------------------------------------------------------
(* IntervalTier.editTimestamps, IntervalTier.getNonEntries *)

\* the tier a method is called on
Tier(nm, list, minT, maxT) ==
    [name |-> nm, entryList |-> list, minTimestamp |-> minT, maxTimestamp |-> maxT]

\* editTimestamps' loop over the entries left to visit; acc holds newEntryList
\* and the exception an assertion has raised
RECURSIVE EditLoop(_, _, _, _, _, _)
EditLoop(acc, rest, self, startOffset, stopOffset, allowOvershoot) ==
    IF acc.exc # "none" \/ Len(rest) = 0 THEN acc
    ELSE LET newStart == startOffset + rest[1].start
             newStop == stopOffset + rest[1].stop
             label == rest[1].label
             next ==
                 IF ~allowOvershoot /\ ~(newStart >= self.minTimestamp /\ newStop <= self.maxTimestamp)
                 THEN [acc EXCEPT !.exc = "AssertionError"]
                 ELSE IF newStop < 0 THEN acc
                 ELSE [acc EXCEPT !.newEntryList =
                          Append(@, Tuple(IF newStart < 0 THEN 0 ELSE newStart, newStop, label))]
         IN EditLoop(next, Tail(rest), self, startOffset, stopOffset, allowOvershoot)

\* editTimestamps(startOffset, stopOffset, allowOvershoot): the tier returned,
\* or the exception raised
editTimestamps(self, startOffset, stopOffset, allowOvershoot) ==
    LET acc == EditLoop([newEntryList |-> << >>, exc |-> "none"], self.entryList,
                        self, startOffset, stopOffset, allowOvershoot)
        newEntryList == acc.newEntryList
        newMin == Min2(SeqMin([i \in 1 .. Len(newEntryList) |-> newEntryList[i].start]),
                       self.minTimestamp)
        newMax == Max2(SeqMax([i \in 1 .. Len(newEntryList) |-> newEntryList[i].stop]),
                       self.maxTimestamp)
    IN IF acc.exc # "none" THEN NoTier(acc.exc)
       ELSE IF Len(newEntryList) = 0 THEN NoTier("ValueError")
       ELSE IntervalTierInit(self.name, newEntryList, Some(newMin), Some(newMax))

\* getNonEntries(): the list returned, or the exception raised
getNonEntries(self) ==
    LET list == getEntries(self.entryList, self.minTimestamp, self.maxTimestamp, FALSE)
        n == Len(list)
        between == [i \in 1 .. n - 1 |-> Tuple(list[i].stop, list[i + 1].start, << >>)]
        invertedEntryList == SelectSeq(between, LAMBDA entry : entry.start < entry.stop)
        leading == IF list[1].start > 0 THEN <<Tuple(0, list[1].start, << >>)>> ELSE << >>
        trailing == IF list[n].stop < self.maxTimestamp
                    THEN <<Tuple(list[n].stop, self.maxTimestamp, << >>)>> ELSE << >>
    IN IF n = 0 THEN [exc |-> "IndexError", invertedEntryList |-> << >>]
       ELSE [exc |-> "none", invertedEntryList |-> leading \o invertedEntryList \o trailing]

----------------------------------------------------------------------------
(* fillInBlanks, _fillInBlanks *)

\* "if prevEnd < newStart": a blank entry goes between two entries
GapNeededOrTouching(prevEnd, newStart) == prevEnd <= newStart

GapNeeded(prevEnd, newStart) == prevEnd < newStart

\* "prevEnd = newEnd" at the end of the loop body
NextPrevEndIsStart(entry) == entry.start

NextPrevEnd(entry) == entry.stop

\* fillInBlanks' loop over entryList[1:]
RECURSIVE FillLoop(_, _, _, _)
FillLoop(newEntryList, prevEnd, rest, blankLabel) ==
    IF Len(rest) = 0 THEN newEntryList
    ELSE LET entry == rest[1]
             newStart == entry.start
             gap == IF GapNeeded(prevEnd, newStart)
                    THEN <<Tuple(prevEnd, newStart, blankLabel)>> ELSE << >>
         IN FillLoop(newEntryList \o gap \o <<entry>>, NextPrevEnd(entry), Tail(rest), blankLabel)

\* fillInBlanks(entryList, blankLabel, startTime, endTime), endTime optional:
\* the outcomes, each the exception raised or the list returned
fillInBlanks(list, blankLabel, startTime, endTime) ==
    LET raise(exc) == {[exc |-> exc, newEntryList |-> << >>]}
        walked == FillLoop(<<list[1]>>, list[1].stop, Tail(list), blankLabel)
        led == IF walked[1].start > startTime
               THEN <<Tuple(startTime, walked[1].start, blankLabel)>> \o walked
               ELSE walked
        lastStop == led[Len(led)].stop
        filled == IF endTime # None /\ lastStop < endTime[1]
                  THEN Append(led, Tuple(lastStop, endTime[1], blankLabel))
                  ELSE led
    IN IF Len(list) = 0 THEN raise("IndexError")
       ELSE IF ~(walked[1].start >= startTime) THEN raise("AssertionError")
       ELSE IF endTime # None /\ ~(lastStop <= endTime[1]) THEN raise("AssertionError")
       ELSE {[exc |-> o.exc, newEntryList |-> IF o.exc = "none" THEN o.entryList ELSE << >>] :
                o \in SortOutcomes(filled, << >>)}

\* _fillInBlanks(intervalTier, blankLabel, startTime, endTime), both times
\* optional: the outcomes, each the exception raised or the tier returned, and
\* the entry list it leaves in intervalTier
_fillInBlanks(intervalTier, blankLabel, startTime, endTime) ==
    LET start == IF startTime = None THEN intervalTier.minTimestamp ELSE startTime[1]
        end == IF endTime = None THEN intervalTier.maxTimestamp ELSE endTime[1]
        input == IF Len(intervalTier.entryList) = 0
                 THEN Append(intervalTier.entryList, Tuple(start, end, blankLabel))
                 ELSE intervalTier.entryList
        returned(o) == IF o.exc # "none" THEN NoTier(o.exc)
                       ELSE IntervalTierInit(intervalTier.name, o.newEntryList, None, None)
    IN {[exc |-> returned(o).exc, tier |-> returned(o), input |-> input] :
           o \in fillInBlanks(input, blankLabel, start, Some(end))}

----------------------------------------------------------------------------
(* TextgridTier.newTier; Textgrid.__init__, addTier, removeTier, renameTier, *)
(* replaceTier.  The tiers of a Textgrid are interval tiers.                 *)

\* the tier object a constructor call that did not raise has made
TierOf(t) == Tier(t.name, t.entryList, t.minTimestamp, t.maxTimestamp)

\* newTier(name, entryList, minTimestamp, maxTimestamp), each optional
newTier(self, nm, list, minT, maxT) ==
    IntervalTierInit(IF nm = None THEN self.name ELSE nm[1],
                     IF list = None THEN self.entryList ELSE list[1],
                     IF minT = None THEN Some(self.minTimestamp) ELSE minT,
                     IF maxT = None THEN Some(self.maxTimestamp) ELSE maxT)

\* _morphFunc(fromTier, toTier): what the generator yields, one
\* <<tmpStart, tmpEnd, fromLabel>> per pair of zip(fromTier.entryList,
\* toTier.entryList), which ends with the shorter list
_morphFunc(fromTier, toTier) ==
    LET pairs == Min2(Len(fromTier.entryList), Len(toTier.entryList))
        yielded(fromEntry, toEntry) ==
            IF fromEntry.label = <<"s", "p">> \/ fromEntry.label = << >>
            THEN <<fromEntry.start, fromEntry.stop, fromEntry.label>>
            ELSE <<toEntry.start, toEntry.stop, fromEntry.label>>
    IN [i \in 1 .. pairs |-> yielded(fromTier.entryList[i], toTier.entryList[i])]

\* the loop of _manipulate over what iterateFunc() yields
RECURSIVE ManipulateLoop(_, _, _)
ManipulateLoop(iterated, adjustAmount, adjustedEntryList) ==
    IF Len(iterated) = 0 THEN adjustedEntryList
    ELSE LET tmpAdjustAmount == iterated[1][2] - iterated[1][1]
             adjustedStart == adjustAmount
             adjustedEnd == adjustAmount + tmpAdjustAmount
         IN ManipulateLoop(Tail(iterated), adjustAmount + tmpAdjustAmount,
                           Append(adjustedEntryList, List(adjustedStart, adjustedEnd, iterated[1][3])))

\* _manipulate(tier, iterateFunc), iterated being what iterateFunc() yields
_manipulate(tier, iterated) ==
    newTier(tier, Some(tier.name), Some(ManipulateLoop(iterated, 0, << >>)), None, None)

\* IntervalTier.morph(targetTier)
morph(self, targetTier) == _manipulate(self, _morphFunc(self, targetTier))

\* Textgrid()
Textgrid ==
    [tierNameList |-> << >>, tierDict |-> << >>, minTimestamp |-> None, maxTimestamp |-> None]

\* list.insert(index, x), index >= 0
InsertAt(list, index, x) ==
    LET i == Min2(index, Len(list))
    IN SubSeq(list, 1, i) \o <<x>> \o SubSeq(list, i + 1, Len(list))

IsInList(x, list) == \E i \in 1 .. Len(list) : list[i] = x

\* list.index(x), counted from 0
Index(list, x) == (CHOOSE i \in 1 .. Len(list) : list[i] = x /\ \A j \in 1 .. i - 1 : list[j] # x) - 1

\* list.pop(index)
Pop(list, index) == SubSeq(list, 1, index) \o SubSeq(list, index + 2, Len(list))

\* del dict[key]
Del(dict, key) == [k \in DOMAIN dict \ {key} |-> dict[k]]

\* what a method of Textgrid leaves: the exception it raised ("none" when it
\* returned) and the Textgrid as it is then
Left(exc, self) == [exc |-> exc, tg |-> self]

\* no method has returned a Textgrid
NoResult == [exc |-> "none", tg |-> Textgrid, same |-> {}]

\* "self.tierNameList.append(tier.name)", or insert(tierIndex, tier.name)
NamesAdded(self, tier, tierIndex) ==
    IF tierIndex = None THEN Append(self.tierNameList, tier.name)
    ELSE InsertAt(self.tierNameList, tierIndex[1], tier.name)

\* addTier(tier, tierIndex), tierIndex optional
addTier(self, tier, tierIndex) ==
    LET named == [self EXCEPT !.tierNameList = NamesAdded(self, tier, tierIndex)]
        minV == tier.minTimestamp
        maxV == tier.maxTimestamp
    IN IF tier.name \in DOMAIN self.tierDict THEN Left("AssertionError", named)
       ELSE Left("none",
                 [named EXCEPT
                    !.tierDict = (tier.name :> tier) @@ @,
                    !.minTimestamp = IF @ = None \/ minV < @[1] THEN Some(minV) ELSE @,
                    !.maxTimestamp = IF @ = None \/ maxV > @[1] THEN Some(maxV) ELSE @])

\* removeTier(name)
removeTier(self, nm) ==
    IF ~IsInList(nm, self.tierNameList) THEN Left("ValueError", self)
    ELSE LET popped == [self EXCEPT !.tierNameList = Pop(@, Index(@, nm))]
         IN IF nm \notin DOMAIN self.tierDict THEN Left("KeyError", popped)
            ELSE Left("none", [popped EXCEPT !.tierDict = Del(@, nm)])

\* removeTier(name), then addTier(oldTier.newTier(newName, newEntryList), tierIndex):
\* the common body of renameTier and replaceTier
ReAdd(self, oldName, newName, newEntryList) ==
    IF oldName \notin DOMAIN self.tierDict THEN Left("KeyError", self)
    ELSE IF ~IsInList(oldName, self.tierNameList) THEN Left("ValueError", self)
    ELSE LET oldTier == self.tierDict[oldName]
             tierIndex == Index(self.tierNameList, oldName)
             removed == removeTier(self, oldName)
             made == newTier(oldTier, Some(newName), Some(newEntryList), None, None)
         IN IF removed.exc # "none" THEN removed
            ELSE IF made.exc # "none" THEN Left(made.exc, removed.tg)
            ELSE addTier(removed.tg, TierOf(made), Some(tierIndex))

renameTier(self, oldName, newName) ==
    IF oldName \notin DOMAIN self.tierDict THEN Left("KeyError", self)
    ELSE ReAdd(self, oldName, newName, self.tierDict[oldName].entryList)

replaceTier(self, nm, newTierEntryList) == ReAdd(self, nm, nm, newTierEntryList)

----------------------------------------------------------------------------
(* TextgridTier.sort, Textgrid.crop *)

\* tier.sort(): the entries become tuples and are sorted
SortTier(tier) ==
    [tier EXCEPT !.entryList =
        Sorted([i \in 1 .. Len(@) |-> Tuple(@[i].start, @[i].stop, @[i].label)])]

\* tier.crop(startTime, endTime, strictFlag, softFlag)[0] with the times as
\* Textgrid.crop has them, None or a number. With a time that is None the call
\* raises TypeError: comparing an entry with None raises on Python 3, and
\* "cropEnd - cropStart" raises on both interpreters.
CropTier(tier, startTime, endTime, strictFlag, softFlag) ==
    IF startTime = None \/ endTime = None THEN NoTier("TypeError")
    ELSE crop(tier.entryList, tier.name, startTime[1], endTime[1], strictFlag, softFlag).subTier

\* the window Textgrid.crop hands to its tiers
CropStart(self, startTime) ==
    IF startTime = None THEN self.minTimestamp ELSE startTime

\* "if startTime is None: endTime = self.maxTimestamp", after startTime has
\* been given its default
CropEnd(self, startTime, endTime) ==
    IF CropStart(self, startTime) = None THEN self.maxTimestamp ELSE endTime

\* Textgrid.crop's loop over the tier names left to visit, newTG built so far
RECURSIVE TextgridCropLoop(_, _, _, _, _, _, _)
TextgridCropLoop(newTG, names, self, startTime, endTime, strictFlag, softFlag) ==
    IF Len(names) = 0 THEN Left("none", newTG)
    ELSE IF names[1] \notin DOMAIN self.tierDict THEN Left("KeyError", newTG)
    ELSE LET cropped == CropTier(self.tierDict[names[1]], startTime, endTime, strictFlag, softFlag)
             added == addTier(newTG, SortTier(TierOf(cropped)), None)
         IN IF cropped.exc # "none" THEN Left(cropped.exc, newTG)
            ELSE IF added.exc # "none" THEN added
            ELSE TextgridCropLoop(added.tg, Tail(names), self, startTime, endTime, strictFlag, softFlag)

\* Textgrid.crop(strictFlag, softFlag, startTime, endTime), the times optional:
\* the exception raised, or the Textgrid returned
TextgridCrop(self, strictFlag, softFlag, startTime, endTime) ==
    TextgridCropLoop(Textgrid, self.tierNameList, self,
                     CropStart(self, startTime), CropEnd(self, startTime, endTime),
                     strictFlag, softFlag)

----------------------------------------------------------------------------
(* Textgrid.getContainedLabels *)

\* the scan of a sub-tier's entries left to visit for the entries inside
\* [startTime, endTime], with its "break"
RECURSIVE ContainedScan(_, _, _, _)
ContainedScan(containedList, rest, startTime, endTime) ==
    IF Len(rest) = 0 THEN containedList
    ELSE LET tmpStart == rest[1].start
             tmpEnd == rest[1].stop
         IN IF startTime <= tmpStart
            THEN IF endTime >= tmpEnd
                 THEN ContainedScan(Append(containedList, Tuple(tmpStart, tmpEnd, rest[1].label)),
                                    Tail(rest), startTime, endTime)
                 ELSE containedList
            ELSE ContainedScan(containedList, Tail(rest), startTime, endTime)

\* getContainedLabels(superTier): the exception raised, or returnList, one
\* dictionary from tier name to containedList for each entry of the super tier
getContainedLabels(self, superTier) ==
    LET raise(exc) == [exc |-> exc, returnList |-> << >>]
        entries == self.tierDict[superTier].entryList
        tierNameList == Pop(self.tierNameList, Index(self.tierNameList, superTier))
        subTiers == {tierNameList[i] : i \in 1 .. Len(tierNameList)}
        outputDict(entry) ==
            [subTier \in subTiers |->
                ContainedScan(<< >>, self.tierDict[subTier].entryList, entry.start, entry.stop)]
    IN IF superTier \notin DOMAIN self.tierDict THEN raise("KeyError")
       ELSE IF Len(entries) = 0 THEN [exc |-> "none", returnList |-> << >>]
       ELSE IF ~IsInList(superTier, self.tierNameList) THEN raise("ValueError")
       ELSE IF ~(subTiers \subseteq DOMAIN self.tierDict) THEN raise("KeyError")
       ELSE [exc |-> "none",
             returnList |-> [i \in 1 .. Len(entries) |-> outputDict(entries[i])]]

----------------------------------------------------------------------------
(* Textgrid.mergeTiers *)

\* includeFunc: None is the default, which tosses the entries with label '';
\* "all" is a caller's function that keeps every entry
Include(includeFunc, entry) ==
    IF includeFunc = None THEN ~(entry.label = << >>) ELSE TRUE

\* superEntryList.extend(tier.entryList) for each tier of tierList
RECURSIVE ExtendAll(_, _)
ExtendAll(self, tierList) ==
    IF Len(tierList) = 0 THEN << >>
    ELSE self.tierDict[tierList[1]].entryList \o ExtendAll(self, Tail(tierList))

\* "newStop = max([currentStop, nextStop])"
FusedStopIsNext(currentStop, nextStop) == nextStop

FusedStop(currentStop, nextStop) == Max2(currentStop, nextStop)

\* "Combine overlapping intervals": the while loop, from index i (counted from 0)
RECURSIVE Combine(_, _)
Combine(superEntryList, i) ==
    IF ~(i < Len(superEntryList) - 1) THEN superEntryList
    ELSE LET currentEntry == superEntryList[i + 1]
             nextEntry == superEntryList[i + 2]
             fused == Tuple(currentEntry.start,
                            FusedStop(currentEntry.stop, nextEntry.stop),
                            currentEntry.label \o <<" ", "/", " ">> \o nextEntry.label)
         IN IF intervalOverlapCheck(currentEntry, nextEntry, 0, 1, 0, FALSE)
            THEN Combine(SubSeq(superEntryList, 1, i) \o <<fused>>
                            \o SubSeq(superEntryList, i + 3, Len(superEntryList)), i)
            ELSE Combine(superEntryList, i + 1)

\* "Preserve non-merged tiers": addTier for each name left to visit that is
\* not in tierList
RECURSIVE PreserveOthers(_, _, _, _)
PreserveOthers(newTG, names, self, tierList) ==
    IF Len(names) = 0 THEN Left("none", newTG)
    ELSE IF IsInList(names[1], tierList) THEN PreserveOthers(newTG, Tail(names), self, tierList)
    ELSE IF names[1] \notin DOMAIN self.tierDict THEN Left("KeyError", newTG)
    ELSE LET added == addTier(newTG, self.tierDict[names[1]], None)
         IN IF added.exc # "none" THEN added
            ELSE PreserveOthers(added.tg, Tail(names), self, tierList)

\* mergeTiers(includeFunc, tierList, preserveOtherTiers), the first two
\* optional: the outcomes, each the exception raised or the Textgrid returned
mergeTiers(self, includeFunc, tierList, preserveOtherTiers) ==
    LET names == IF tierList = None THEN self.tierNameList ELSE tierList[1]
        included == SelectSeq(ExtendAll(self, names), LAMBDA entry : Include(includeFunc, entry))
        preserved == IF preserveOtherTiers
                     THEN PreserveOthers(Textgrid, self.tierNameList, self, names)
                     ELSE Left("none", Textgrid)
        tierName == Join(<<"/">>, names)
        merged(superEntryList) ==
            newTier(self.tierDict[names[1]], Some(tierName), Some(superEntryList), None, None)
        finish(superEntryList) ==
            IF preserved.exc # "none" THEN preserved
            ELSE IF Len(names) = 0 THEN Left("IndexError", preserved.tg)
            ELSE IF merged(superEntryList).exc # "none"
            THEN Left(merged(superEntryList).exc, preserved.tg)
            ELSE addTier(preserved.tg, TierOf(merged(superEntryList)), None)
    IN IF \E i \in 1 .. Len(names) : names[i] \notin DOMAIN self.tierDict
       THEN {Left("KeyError", Textgrid)}
       ELSE IF SortRaises(included) THEN {Left("TypeError", Textgrid)}
       ELSE {finish(Combine(Sorted(included), 0))}

----------------------------------------------------------------------------
(* Textgrid.save, openTextGrid.  Text is a sequence of characters; the tiers *)
(* are interval tiers, whose times the constructor has made floats, here the *)
(* whole numbers n.0.                                                        *)

Digit == <<"0", "1", "2", "3", "4", "5", "6", "7", "8", "9">>

\* "%d" % n, n >= 0
RECURSIVE DecimalOf(_)
DecimalOf(n) ==
    IF n < 10 THEN <<Digit[n + 1]>>
    ELSE DecimalOf(n \div 10) \o <<Digit[(n % 10) + 1]>>

\* repr(x) of the float x = n.0, n >= 0
repr(n) == DecimalOf(n) \o <<".", "0">>

\* repr(self.minTimestamp) of a Textgrid, None while it has no tier
ReprOptional(t) == IF t = None THEN <<"N", "o", "n", "e">> ELSE repr(t[1])

\* '"%s"' % s
Quoted(s) == <<"\"">> \o s \o <<"\"">>

\* s + "\n"
Line(s) == s \o <<"\n">>

\* INTERVAL_TIER
INTERVAL_TIER ==
    <<"I", "n", "t", "e", "r", "v", "a", "l", "T", "i", "e", "r">>

\* POINT_TIER
POINT_TIER ==
    <<"T", "e", "x", "t", "T", "i", "e", "r">>

FileTypeLine ==
    <<"F", "i", "l", "e", " ", "t", "y", "p", "e", " ", "=", " ", "\"", "o",
      "o", "T", "e", "x", "t", "F", "i", "l", "e", " ", "s", "h", "o", "r",
      "t", "\"", "\n">>

ObjectClassLine ==
    <<"O", "b", "j", "e", "c", "t", " ", "c", "l", "a", "s", "s", " ", "=",
      " ", "\"", "T", "e", "x", "t", "G", "r", "i", "d", "\"", "\n", "\n">>

ExistsLine ==
    <<"<", "e", "x", "i", "s", "t", "s", ">", "\n">>

ShortMarker ==
    <<"o", "o", "T", "e", "x", "t", "F", "i", "l", "e", " ", "s", "h", "o",
      "r", "t">>

ItemMarker ==
    <<"i", "t", "e", "m">>

\* the rows of the entries, three to an entry
RECURSIVE EntriesAsText(_)
EntriesAsText(list) ==
    IF Len(list) = 0 THEN << >>
    ELSE Line(repr(list[1].start)) \o Line(repr(list[1].stop))
         \o Line(Quoted(list[1].label)) \o EntriesAsText(Tail(list))

\* tier.getAsText()
getAsText(self) ==
    Line(Quoted(INTERVAL_TIER)) \o Line(Quoted(self.name))
    \o Line(repr(self.minTimestamp)) \o Line(repr(self.maxTimestamp))
    \o Line(DecimalOf(Len(self.entryList)))
    \o EntriesAsText(self.entryList)

\* Textgrid.sort()
TextgridSort(self) ==
    [self EXCEPT !.tierDict = [n \in DOMAIN @ |-> SortTier(@[n])]]

\* save's loop "self.tierDict[name] = _fillInBlanks(tier, "", self.minTimestamp,
\* self.maxTimestamp)" over the names left: the outcomes. When _fillInBlanks
\* raises, the tier keeps the entry list _fillInBlanks left in it.
RECURSIVE SaveFill(_, _)
SaveFill(self, names) ==
    IF Len(names) = 0 THEN {Left("none", self)}
    ELSE UNION {IF o.exc # "none"
                THEN {Left(o.exc, [self EXCEPT !.tierDict[names[1]].entryList = o.input])}
                ELSE SaveFill([self EXCEPT !.tierDict[names[1]] = TierOf(o.tier)], Tail(names)) :
                   o \in _fillInBlanks(self.tierDict[names[1]], << >>,
                                       self.minTimestamp, self.maxTimestamp)}

RECURSIVE TiersAsText(_, _)
TiersAsText(self, names) ==
    IF Len(names) = 0 THEN << >>
    ELSE getAsText(self.tierDict[names[1]]) \o TiersAsText(self, Tail(names))

\* the text save writes for the Textgrid as the gap-fill left it
OutputTxt(self) ==
    FileTypeLine \o ObjectClassLine
    \o Line(ReprOptional(self.minTimestamp)) \o Line(ReprOptional(self.maxTimestamp))
    \o ExistsLine \o Line(DecimalOf(Len(self.tierNameList)))
    \o TiersAsText(self, self.tierNameList)

\* save(fn): the outcomes, each the exception raised or the text written, and
\* the Textgrid as save leaves it
save(self) ==
    {IF o.exc # "none" THEN [exc |-> o.exc, tg |-> o.tg, outputTxt |-> << >>]
     ELSE [exc |-> "none", tg |-> TextgridSort(o.tg), outputTxt |-> OutputTxt(TextgridSort(o.tg))] :
        o \in SaveFill(TextgridSort(self), self.tierNameList)}

\* utils.findAll(data, sub): the indices, from 0, at which sub occurs in data
findAll(data, sub) ==
    {i \in 0 .. Len(data) - Len(sub) : SubSeq(data, i + 1, i + Len(sub)) = sub}

SetMin(S) == CHOOSE x \in S : \A y \in S : x <= y

\* _fetchRow(dataStr, '', index): the word of the row that starts at index and
\* the index after its "\n". str.index raises ValueError when no "\n" follows,
\* word[0] raises IndexError when the row is blank.
_fetchRow(dataStr, index) ==
    LET ends == {k \in index .. Len(dataStr) - 1 : dataStr[k + 1] = "\n"}
        endIndex == SetMin(ends)
        word == Strip(SubSeq(dataStr, index + 1, endIndex))
        unquoted == IF word[1] = "\"" /\ word[Len(word)] = "\""
                    THEN SubSeq(word, 2, Len(word) - 1) ELSE word
    IN IF ends = {} THEN [exc |-> "ValueError", word |-> << >>, next |-> index]
       ELSE IF Len(word) = 0 THEN [exc |-> "IndexError", word |-> << >>, next |-> index]
       ELSE [exc |-> "none", word |-> Strip(unquoted), next |-> endIndex + 1]

DigitValue(c) == CHOOSE d \in 0 .. 9 : Digit[d + 1] = c

IsDigits(s) == Len(s) > 0 /\ \A i \in 1 .. Len(s) : \E d \in 1 .. 10 : Digit[d] = s[i]

\* int(s) of a row of digits
RECURSIVE int(_)
int(s) ==
    IF Len(s) = 1 THEN DigitValue(s[1])
    ELSE int(SubSeq(s, 1, Len(s) - 1)) * 10 + DigitValue(s[Len(s)])

NoNumber == [exc |-> "ValueError", value |-> 0]

\* float(s): the float n.0 that "n.0" or "n" spells; the texts of the model
\* spell no other float, and any other text raises ValueError
float(s) ==
    LET dots == {i \in 1 .. Len(s) : s[i] = "."}
        dot == SetMin(dots)
        whole == SubSeq(s, 1, dot - 1)
        fraction == SubSeq(s, dot + 1, Len(s))
    IN IF dots = {}
       THEN IF IsDigits(s) THEN [exc |-> "none", value |-> int(s)] ELSE NoNumber
       ELSE IF IsDigits(whole) /\ IsDigits(fraction) /\ int(fraction) = 0
       THEN [exc |-> "none", value |-> int(whole)]
       ELSE NoNumber

\* strToIntOrFloat(inputStr)
strToIntOrFloat(inputStr) ==
    IF \E i \in 1 .. Len(inputStr) : inputStr[i] = "."
    THEN float(inputStr)
    ELSE IF IsDigits(inputStr) THEN [exc |-> "none", value |-> int(inputStr)] ELSE NoNumber

\* the "while True" loop of an interval tier's block: rows are read three at a
\* time from startTimeI until one is missing; a blank label is skipped. The
\* times stay the words read.
RECURSIVE ReadEntries(_, _, _)
ReadEntries(tierData, startTimeI, list) ==
    LET startTime == _fetchRow(tierData, startTimeI)
        endTime == _fetchRow(tierData, startTime.next)
        label == _fetchRow(tierData, endTime.next)
    IN IF startTime.exc # "none" THEN list
       ELSE IF endTime.exc # "none" THEN list
       ELSE IF label.exc # "none" THEN list
       ELSE IF Strip(label.word) = << >> THEN ReadEntries(tierData, label.next, list)
       ELSE ReadEntries(tierData, label.next,
                        Append(list, [start |-> startTime.word, stop |-> endTime.word,
                                           label |-> Strip(label.word)]))

\* IntervalTier(tierName, entryList, tierStartTime, tierEndTime) on the words
\* read: "float(start), float(stop)" comes first in the constructor
IntervalTierOfWords(tierName, words, tierStartTime, tierEndTime) ==
    IF \E i \in 1 .. Len(words) : float(words[i].start).exc # "none" \/ float(words[i].stop).exc # "none"
    THEN NoTier("ValueError")
    ELSE IntervalTierInit(tierName,
                          [i \in 1 .. Len(words) |->
                              Tuple(float(words[i].start).value, float(words[i].stop).value, words[i].label)],
                          Some(tierStartTime), Some(tierEndTime))

\* the body of _parseShortTextGrid's loop for one interval tier's block
ParseBlock(newTG, tierData) ==
    LET type == _fetchRow(tierData, 0)
        tierName == _fetchRow(tierData, type.next)
        tierStartTime == _fetchRow(tierData, tierName.next)
        tierEndTime == _fetchRow(tierData, tierStartTime.next)
        count == _fetchRow(tierData, tierEndTime.next)
        startNumber == strToIntOrFloat(tierStartTime.word)
        endNumber == strToIntOrFloat(tierEndTime.word)
        tier == IntervalTierOfWords(tierName.word, ReadEntries(tierData, count.next, << >>),
                                    startNumber.value, endNumber.value)
    IN IF type.exc # "none" THEN Left(type.exc, newTG)
       ELSE IF tierName.exc # "none" THEN Left(tierName.exc, newTG)
       ELSE IF tierStartTime.exc # "none" THEN Left(tierStartTime.exc, newTG)
       ELSE IF tierEndTime.exc # "none" THEN Left(tierEndTime.exc, newTG)
       ELSE IF count.exc # "none" THEN Left(count.exc, newTG)
       ELSE IF startNumber.exc # "none" THEN Left(startNumber.exc, newTG)
       ELSE IF endNumber.exc # "none" THEN Left(endNumber.exc, newTG)
       ELSE IF tier.exc # "none" THEN Left(tier.exc, newTG)
       ELSE addTier(newTG, TierOf(tier), None)

\* _parseShortTextGrid's loop over the blocks that start at the indices left;
\* a block ends where the next begins, the last at the end of the data
RECURSIVE ParseBlocks(_, _, _)
ParseBlocks(newTG, data, indices) ==
    IF indices = {} THEN Left("none", newTG)
    ELSE LET blockStartI == SetMin(indices)
             later == indices \ {blockStartI}
             blockEndI == IF later = {} THEN Len(data) ELSE SetMin(later)
             parsed == ParseBlock(newTG, SubSeq(data, blockStartI + 1, blockEndI))
         IN IF parsed.exc # "none" THEN parsed
            ELSE ParseBlocks(parsed.tg, data, later)

\* _parseShortTextGrid(data); the blocks of point tiers are not part of the
\* model, and no text save writes for a Textgrid of the model has one
_parseShortTextGrid(data) ==
    IF findAll(data, Quoted(POINT_TIER)) # {} THEN Left("PointTier", Textgrid)
    ELSE ParseBlocks(Textgrid, data, findAll(data, Quoted(INTERVAL_TIER)))

\* removeLabels' loop over self.tierNameList: a tier named in tierNameList is
\* made anew without the entries that carry the label, any other tier is added
\* as it is
RECURSIVE RemoveLabelsLoop(_, _, _, _, _)
RemoveLabelsLoop(new, self, names, label, tierNameList) ==
    IF Len(names) = 0 THEN Left("none", new)
    ELSE LET tier == self.tierDict[names[1]]
             newEntryList == SelectSeq(tier.entryList, LAMBDA entry : entry.label # label)
             named == IsInList(names[1], tierNameList)
             made == newTier(tier, Some(names[1]), Some(newEntryList),
                             Some(tier.minTimestamp), Some(tier.maxTimestamp))
             added == addTier(new, IF named THEN TierOf(made) ELSE tier, None)
         IN IF named /\ made.exc # "none" THEN Left(made.exc, new)
            ELSE IF added.exc # "none" THEN added
            ELSE RemoveLabelsLoop(added.tg, self, Tail(names), label, tierNameList)

\* removeLabels(label, tierNameList), tierNameList optional
removeLabels(self, label, tierNameList) ==
    RemoveLabelsLoop(Textgrid, self, self.tierNameList, label,
                     IF tierNameList = None THEN self.tierNameList ELSE tierNameList[1])

\* the tiers removeLabels hands to the new Textgrid as they are, "tg.addTier(tier)"
\* of the tier read from self.tierDict: the same objects
removeLabelsSame(self, tierNameList) ==
    IF tierNameList = None THEN {}
    ELSE {n \in DOMAIN self.tierDict : ~IsInList(n, tierNameList[1])}

\* the tiers mergeTiers hands to the new Textgrid as they are,
\* "tg.addTier(self.tierDict[tierName])": the same objects
mergeTiersSame(self, tierList, preserveOtherTiers) ==
    IF tierList = None \/ ~preserveOtherTiers THEN {}
    ELSE {n \in DOMAIN self.tierDict : ~IsInList(n, tierList[1])}

\* the text names the normal dialect, whose parser is not part of the model
NormalDialect(data) ==
    findAll(data, ShortMarker) = {} /\ findAll(data, ItemMarker) # {}

\* openTextGrid(fnFullPath) on a file that holds data, where no "\r" occurs
openTextGrid(data) ==
    LET textgrid == _parseShortTextGrid(data)
    IN IF NormalDialect(data) THEN Left("_parseNormalTextGrid", Textgrid)
       ELSE IF textgrid.exc # "none" THEN textgrid
       ELSE removeLabels(textgrid.tg, << >>, None)

----------------------------------------------------------------------------
(* PointTier: __init__, getEntries, insertEntry, editTimestamps.  A point is *)
(* a (time, label) tuple.                                                    *)

Point(time, label) == [time |-> time, label |-> label]

\* PointTier(name, entryList, minT, maxT), minT and maxT optional; the labels
\* are kept as they are given
PointTierInit(nm, entries, minT, maxT) ==
    LET timeList == [i \in 1 .. Len(entries) |-> entries[i].time] \o minT \o maxT
    IN IF Len(timeList) = 0 THEN NoTier("TimelessTextgridTierException")
       ELSE [exc |-> "none", name |-> nm, entryList |-> entries,
             minTimestamp |-> SeqMin(timeList), maxTimestamp |-> SeqMax(timeList)]

\* PointTier.getEntries(start, stop, boundaryInclusive), start and stop optional
pointGetEntries(self, start, stop, boundaryInclusive) ==
    LET from == IF start = None THEN self.minTimestamp ELSE start[1]
        to == IF stop = None THEN self.maxTimestamp ELSE stop[1]
    IN SelectSeq(self.entryList,
                 LAMBDA entry : \/ boundaryInclusive /\ (entry.time = from \/ entry.time = to)
                                \/ entry.time > from /\ entry.time < to)

\* (time, label) < (time, label) for two tuples
PointLess(x, y) == IF x.time # y.time THEN x.time < y.time ELSE StrLess(x.label, y.label)

RECURSIVE PointInsertSorted(_, _)
PointInsertSorted(e, s) ==
    IF Len(s) = 0 THEN <<e>>
    ELSE IF PointLess(e, s[1]) THEN <<e>> \o s
    ELSE <<s[1]>> \o PointInsertSorted(e, Tail(s))

\* self.entryList.sort() of a list of points
RECURSIVE PointSorted(_)
PointSorted(s) ==
    IF Len(s) = 0 THEN << >>
    ELSE PointInsertSorted(s[Len(s)], PointSorted(SubSeq(s, 1, Len(s) - 1)))

\* "searchEntry[0] == entry[0]" in "for i, searchEntry in entryList": the loop
\* unpacks each point, so searchEntry is its label and searchEntry[0] a
\* character, which never equals the number entry[0]
CharEqualsTime(char, time) == FALSE

\* PointTier.insertEntry's search loop over the points left: the exception it
\* raises (IndexError at searchEntry[0] of an empty label), matchList, and i
RECURSIVE PointSearch(_, _)
PointSearch(rest, entry) ==
    IF Len(rest) = 0 THEN [exc |-> "none", matchList |-> << >>, i |-> None]
    ELSE IF Len(rest[1].label) = 0
    THEN [exc |-> "IndexError", matchList |-> << >>, i |-> Some(rest[1].time)]
    ELSE IF CharEqualsTime(rest[1].label[1], entry.time)
    THEN [exc |-> "none", matchList |-> <<rest[1].label>>, i |-> Some(rest[1].time)]
    ELSE PointSearch(Tail(rest), entry)

PointLeft(exc, list, matchList) == [exc |-> exc, entryList |-> list, matchList |-> matchList]

\* PointTier.insertEntry(entry, warnFlag, collisionCode): the exception raised
\* and the entry list left. With a match, i is a time and self.entryList[i]
\* raises TypeError.
pointInsertEntry(self, entry, collisionCode) ==
    LET searched == PointSearch(pointGetEntries(self, None, None, TRUE), entry)
    IN IF searched.exc # "none" THEN PointLeft(searched.exc, self.entryList, << >>)
       ELSE IF Len(searched.matchList) = 0
       THEN PointLeft("none", PointSorted(Append(self.entryList, entry)), << >>)
       ELSE IF collisionCode = None
       THEN PointLeft("AttributeError", self.entryList, searched.matchList)
       ELSE IF Lower(collisionCode[1]) \in {"replace", "merge"}
       THEN PointLeft("TypeError", self.entryList, searched.matchList)
       ELSE PointLeft("TextgridCollisionException", self.entryList, searched.matchList)

\* PointTier.editTimestamps' loop over the points left; acc holds newEntryList
\* and the exception an assertion has raised
RECURSIVE PointEditLoop(_, _, _, _, _)
PointEditLoop(acc, rest, self, offset, allowOvershoot) ==
    IF Len(rest) = 0 \/ acc.exc # "none" THEN acc
    ELSE LET newTimestamp == rest[1].time + offset
         IN IF ~allowOvershoot /\ ~(newTimestamp > self.minTimestamp /\ newTimestamp <= self.maxTimestamp)
            THEN [acc EXCEPT !.exc = "AssertionError"]
            ELSE IF newTimestamp < 0
            THEN PointEditLoop(acc, Tail(rest), self, offset, allowOvershoot)
            ELSE PointEditLoop([acc EXCEPT !.newEntryList = Append(@, Point(newTimestamp, rest[1].label))],
                               Tail(rest), self, offset, allowOvershoot)

\* PointTier.editTimestamps(offset, allowOvershoot). newMin is the least
\* float(subList[0]); newMax is the greatest float(subList[1]), the float a
\* label spells, and float raises ValueError on a label that spells none.
pointEditTimestamps(self, offset, allowOvershoot) ==
    LET loop == PointEditLoop([exc |-> "none", newEntryList |-> << >>], self.entryList,
                              self, offset, allowOvershoot)
        list == loop.newEntryList
        n == Len(list)
        newMin == Min2(SeqMin([i \in 1 .. n |-> list[i].time]), self.minTimestamp)
        newMax == Max2(SeqMax([i \in 1 .. n |-> float(list[i].label).value]), self.maxTimestamp)
    IN IF loop.exc # "none" THEN NoTier(loop.exc)
       ELSE IF n = 0 THEN NoTier("ValueError")
       ELSE IF \E i \in 1 .. n : float(list[i].label).exc # "none" THEN NoTier("ValueError")
       ELSE PointTierInit(self.name, list, Some(newMin), Some(newMax))

----------------------------------------------------------------------------
(* TextgridTier.__eq__, Textgrid.__eq__ *)

\* isclose(a, b) with rel_tol 1e-14 on two times: whole numbers that far
\* below 1e14 are close only when equal
isclose(a, b) == a = b

\* the inner loop of __eq__ on one pair of entries: zip pairs start with
\* start, end with end and label with label, whatever sequence type holds
\* them; isclose compares the times and, after its TypeError, == the labels
EntriesClose(selfEntry, otherEntry) ==
    /\ isclose(selfEntry.start, otherEntry.start)
    /\ isclose(selfEntry.stop, otherEntry.stop)
    /\ selfEntry.label = otherEntry.label

\* TextgridTier.__eq__(self, other): the outer zip ends with the shorter
\* entry list
TextgridTier__eq__(self, other) ==
    /\ self.name = other.name
    /\ self.minTimestamp = other.minTimestamp
    /\ self.maxTimestamp = other.maxTimestamp
    /\ \A i \in 1 .. Min2(Len(self.entryList), Len(other.entryList)) :
          EntriesClose(self.entryList[i], other.entryList[i])

\* Textgrid.__eq__(self, other)
Textgrid__eq__(self, other) ==
    /\ self.minTimestamp = other.minTimestamp
    /\ self.maxTimestamp = other.maxTimestamp
    /\ self.tierNameList = other.tierNameList
    /\ \A i \in 1 .. Len(self.tierNameList) :
          TextgridTier__eq__(self.tierDict[self.tierNameList[i]], other.tierDict[self.tierNameList[i]])

----------------------------------------------------------------------------
(* Inputs *)

Labels == {<<"a">>, <<"b">>}

\* labels as a caller may hand them to the constructor, before strip()
RawLabels == Labels \cup {<<" ", "a">>}

Intervals == {p \in Times \X Times : p[1] < p[2]}

EntryInputs == {Tuple(p[1], p[2], l) : p \in Intervals, l \in Labels}

RawEntries == {Tuple(p[1], p[2], l) : p \in Intervals, l \in RawLabels}

SeqsUpTo(S, n) == UNION {[1 .. k -> S] : k \in 0 .. n}

InsertCodes == {None, Some("replace"), Some("merge"), Some("Merge"), Some("error")}

EraseCodes == {None, Some("truncate"), Some("categorical")}

----------------------------------------------------------------------------
(* The tier under mutation *)

\* a tier as IntervalTier(name, entries, minT, maxT) returns it
Constructed(entries, minT, maxT) ==
    LET t == IntervalTierInit("tier", entries, minT, maxT)
    IN /\ t.exc = "none"
       /\ name = t.name
       /\ entryList = t.entryList
       /\ minTimestamp = t.minTimestamp
       /\ maxTimestamp = t.maxTimestamp
       /\ tg = Textgrid /\ result = NoResult
       /\ ret = [op |-> "IntervalTier"]
       /\ calls = 0

Init ==
    /\ py \in PyBuilds
    /\ \E entries \in SeqsUpTo(RawEntries, MaxLen), minT \in {None, Some(0)}, maxT \in {None, Some(MaxTime)} :
          Constructed(entries, minT, maxT)

ExcArgs(exc, entry, matchList) ==
    IF exc = "TextgridCollisionException"
    THEN [tierName |-> name, insertInterval |-> entry, collisionList |-> matchList]
    ELSE [tierName |-> "", insertInterval |-> entry, collisionList |-> << >>]

InsertEntry ==
    /\ calls < MaxCalls
    /\ \E entry \in EntryInputs, collisionCode \in InsertCodes :
        \E o \in insertEntry(entryList, entry, collisionCode) :
            /\ entryList' = o.entryList
            /\ ret' = [op |-> "insertEntry", entry |-> entry, collisionCode |-> collisionCode,
                       before |-> entryList, matchList |-> o.matchList, exc |-> o.exc,
                       excArgs |-> ExcArgs(o.exc, entry, o.matchList)]
    /\ calls' = calls + 1
    /\ UNCHANGED <<py, name, minTimestamp, maxTimestamp, tg, result>>

EraseInterval ==
    /\ calls < MaxCalls
    /\ \E range \in Intervals, collisionCode \in EraseCodes :
        \E o \in eraseInterval(entryList, range[1], range[2], collisionCode) :
            /\ entryList' = o.entryList
            /\ ret' = [op |-> "eraseInterval", startTime |-> range[1], endTime |-> range[2],
                       collisionCode |-> collisionCode, before |-> entryList,
                       matchList |-> o.matchList, exc |-> o.exc]
    /\ calls' = calls + 1
    /\ UNCHANGED <<py, name, minTimestamp, maxTimestamp, tg, result>>

Next == InsertEntry \/ EraseInterval

Spec == Init /\ [][Next]_vars

----------------------------------------------------------------------------
(* Cropping a constructed tier *)

\* the tier of the specification's worked examples
ExampleEntries ==
    <<Tuple(0, 5, <<"a">>), Tuple(5, 10, <<"b">>), Tuple(10, 15, <<"c">>)>>

InitCrop ==
    \/ Init
    \/ py \in PyBuilds /\ Constructed(ExampleEntries, None, None)

\* crop is a function of the tier and its arguments: one call per constructed
\* tier shows every result
Crop ==
    /\ calls = 0
    /\ \E cropStart, cropEnd \in 0 .. Max2(MaxTime, maxTimestamp), strictFlag, softFlag \in BOOLEAN :
        /\ cropStart <= cropEnd
        /\ ret' = [op |-> "crop", cropStart |-> cropStart, cropEnd |-> cropEnd,
                   strictFlag |-> strictFlag, softFlag |-> softFlag,
                   result |-> crop(entryList, name, cropStart, cropEnd, strictFlag, softFlag)]
    /\ calls' = calls + 1
    /\ UNCHANGED <<py, name, entryList, minTimestamp, maxTimestamp, tg, result>>

NextCrop == Crop

SpecCrop == InitCrop /\ [][NextCrop]_vars

----------------------------------------------------------------------------
(* Queries on a constructed tier *)

\* the tier the state variables hold
Self == Tier(name, entryList, minTimestamp, maxTimestamp)

Offsets == (0 - MaxTime) .. MaxTime

EditTimestamps ==
    /\ calls = 0
    /\ \E startOffset, stopOffset \in Offsets, allowOvershoot \in BOOLEAN :
        ret' = [op |-> "editTimestamps", startOffset |-> startOffset,
                stopOffset |-> stopOffset, allowOvershoot |-> allowOvershoot,
                result |-> editTimestamps(Self, startOffset, stopOffset, allowOvershoot)]
    /\ calls' = calls + 1
    /\ UNCHANGED <<py, name, entryList, minTimestamp, maxTimestamp, tg, result>>

GetNonEntries ==
    /\ calls = 0
    /\ ret' = [op |-> "getNonEntries", result |-> getNonEntries(Self)]
    /\ calls' = calls + 1
    /\ UNCHANGED <<py, name, entryList, minTimestamp, maxTimestamp, tg, result>>

NextTier == EditTimestamps \/ GetNonEntries

SpecTier == Init /\ [][NextTier]_vars

----------------------------------------------------------------------------
(* Filling the gaps of a constructed tier *)

\* labels of which strip() leaves nothing
BlankableLabels == {<<"a">>, <<" ">>}

BlankableEntries == {Tuple(p[1], p[2], l) : p \in Intervals, l \in BlankableLabels}

OptionalTimes == {None} \cup {Some(t) : t \in Times}

InitFill ==
    /\ py \in PyBuilds
    /\ \E entries \in SeqsUpTo(BlankableEntries, MaxLen), minT \in {None, Some(0)}, maxT \in {None, Some(MaxTime)} :
          Constructed(entries, minT, maxT)

\* t = _fillInBlanks(t, "", startTime, endTime) on a constructed tier, and
\* t = _fillInBlanks(t) again on what _fillInBlanks(t) returned
FillInBlanks ==
    /\ calls < MaxCalls
    /\ \E startTime, endTime \in OptionalTimes :
        /\ \/ calls = 0
           \/ /\ calls > 0
              /\ startTime = None /\ endTime = None
              /\ ret.startTime = None /\ ret.endTime = None
              /\ ret.exc = "none"
        /\ \E o \in _fillInBlanks(Self, << >>, startTime, endTime) :
            /\ ret' = [op |-> "_fillInBlanks", startTime |-> startTime, endTime |-> endTime,
                       original |-> IF calls = 0 THEN entryList ELSE ret.original,
                       before |-> entryList, input |-> o.input, exc |-> o.exc]
            /\ IF o.exc = "none"
               THEN /\ name' = o.tier.name
                    /\ entryList' = o.tier.entryList
                    /\ minTimestamp' = o.tier.minTimestamp
                    /\ maxTimestamp' = o.tier.maxTimestamp
               ELSE /\ entryList' = o.input
                    /\ UNCHANGED <<name, minTimestamp, maxTimestamp>>
    /\ calls' = calls + 1
    /\ UNCHANGED <<py, tg, result>>

NextFill == FillInBlanks

SpecFill == InitFill /\ [][NextFill]_vars

----------------------------------------------------------------------------
(* A Textgrid under addTier, removeTier, renameTier, replaceTier *)

MaxTiers == 2

\* tier names, like labels, are sequences of characters
TierNames == {<<"x">>, <<"y">>}

\* the entry lists of the tiers put into a Textgrid
TierEntryLists == SeqsUpTo({Tuple(p[1], p[2], <<"a">>) : p \in Intervals}, 1) \ {<< >>}

\* IntervalTier(name, entries)
TierInputs == {TierOf(IntervalTierInit(n, l, None, None)) : n \in TierNames, l \in TierEntryLists}

\* tg = Textgrid(); for tier in tiers: tg.addTier(tier)
RECURSIVE TextgridOf(_)
TextgridOf(tiers) ==
    IF Len(tiers) = 0 THEN Textgrid
    ELSE addTier(TextgridOf(SubSeq(tiers, 1, Len(tiers) - 1)), tiers[Len(tiers)], None).tg

DistinctNames(tiers) == \A i, j \in 1 .. Len(tiers) : i # j => tiers[i].name # tiers[j].name

InitTextgrid ==
    /\ py \in PyBuilds
    /\ name = "" /\ entryList = << >> /\ minTimestamp = 0 /\ maxTimestamp = 0
    /\ \E tiers \in SeqsUpTo(TierInputs, MaxTiers) :
          DistinctNames(tiers) /\ tg = TextgridOf(tiers) /\ result = NoResult
    /\ ret = [op |-> "Textgrid"]
    /\ calls = 0

\* a method of Textgrid was called: what it left and what it was called on
Called(op, args, left) ==
    /\ calls < MaxCalls
    /\ tg' = left.tg
    /\ ret' = [op |-> op, args |-> args, before |-> tg, exc |-> left.exc]
    /\ calls' = calls + 1
    /\ UNCHANGED <<py, name, entryList, minTimestamp, maxTimestamp, result>>

AddTier ==
    \E tier \in TierInputs, tierIndex \in {None, Some(0), Some(1)} :
        Called("addTier", <<tier, tierIndex>>, addTier(tg, tier, tierIndex))

RemoveTier ==
    \E nm \in TierNames : Called("removeTier", <<nm>>, removeTier(tg, nm))

RenameTier ==
    \E oldName, newName \in TierNames :
        Called("renameTier", <<oldName, newName>>, renameTier(tg, oldName, newName))

ReplaceTier ==
    \E nm \in TierNames, newTierEntryList \in TierEntryLists :
        Called("replaceTier", <<nm, newTierEntryList>>, replaceTier(tg, nm, newTierEntryList))

NextTextgrid == AddTier \/ RemoveTier \/ RenameTier \/ ReplaceTier

SpecTextgrid == InitTextgrid /\ [][NextTextgrid]_vars

----------------------------------------------------------------------------
(* Cropping a Textgrid *)

TgCrop ==
    /\ calls = 0
    /\ \E strictFlag, softFlag \in BOOLEAN, startTime, endTime \in OptionalTimes :
        ret' = [op |-> "Textgrid.crop", strictFlag |-> strictFlag, softFlag |-> softFlag,
                startTime |-> startTime, endTime |-> endTime,
                result |-> TextgridCrop(tg, strictFlag, softFlag, startTime, endTime)]
    /\ calls' = calls + 1
    /\ UNCHANGED <<py, name, entryList, minTimestamp, maxTimestamp, tg, result>>

NextTgCrop == TgCrop

SpecTgCrop == InitTextgrid /\ [][NextTgCrop]_vars

----------------------------------------------------------------------------
(* Queries on a Textgrid of one or two constructed tiers *)

\* tier x: IntervalTier("x", entries) with up to MaxLen entries, or the empty
\* IntervalTier("x", [], 0, MaxTime)
XTiers ==
    {TierOf(IntervalTierInit(<<"x">>, l,
                             IF l = << >> THEN Some(0) ELSE None,
                             IF l = << >> THEN Some(MaxTime) ELSE None)) :
        l \in SeqsUpTo(BlankableEntries, MaxLen)}

\* tier y: IntervalTier("y", [entry])
YTiers == {t \in TierInputs : t.name = <<"y">>}

InitQuery ==
    /\ py \in PyBuilds
    /\ name = "" /\ entryList = << >> /\ minTimestamp = 0 /\ maxTimestamp = 0
    /\ \E x \in XTiers, ys \in SeqsUpTo(YTiers, 1) : tg = TextgridOf(<<x>> \o ys) /\ result = NoResult
    /\ ret = [op |-> "Textgrid"]
    /\ calls = 0

\* a query was made on the Textgrid
Queried(record) ==
    /\ calls = 0
    /\ ret' = record
    /\ calls' = calls + 1
    /\ UNCHANGED <<py, name, entryList, minTimestamp, maxTimestamp, tg, result>>

GetContainedLabels ==
    \E superTier \in TierNames :
        Queried([op |-> "getContainedLabels", superTier |-> superTier,
                 result |-> getContainedLabels(tg, superTier)])

NextContained == GetContainedLabels

SpecContained == InitQuery /\ [][NextContained]_vars

IncludeFuncs == {None, Some("all")}

MergeTiers ==
    /\ calls = 0
    /\ \E includeFunc \in IncludeFuncs, tierList \in {None, Some(<<<<"x">>>>)}, preserveOtherTiers \in BOOLEAN :
           /\ tierList = None => preserveOtherTiers
           /\ \E o \in mergeTiers(tg, includeFunc, tierList, preserveOtherTiers) :
                 Queried([op |-> "mergeTiers", includeFunc |-> includeFunc, tierList |-> tierList,
                          preserveOtherTiers |-> preserveOtherTiers, result |-> o])

NextMerge == MergeTiers

\* mergeTiers reads the entries of the tiers it merges through
\* superEntryList.extend(tier.entryList) and superEntryList.sort() alone, so
\* tier x is given with its entries latest first, the order the sort has the
\* most to undo
LatestFirstXTiers == {x \in XTiers : x.entryList = Reverse(Sorted(x.entryList))}

InitMerge ==
    /\ py \in PyBuilds
    /\ name = "" /\ entryList = << >> /\ minTimestamp = 0 /\ maxTimestamp = 0
    /\ \E x \in LatestFirstXTiers, ys \in SeqsUpTo(YTiers, 1) : tg = TextgridOf(<<x>> \o ys) /\ result = NoResult
    /\ ret = [op |-> "Textgrid"]
    /\ calls = 0

SpecMerge == InitMerge /\ [][NextMerge]_vars

----------------------------------------------------------------------------
(* Textgrid.save and openTextGrid on a Textgrid of tier x and, perhaps, *)
(* tier y                                                               *)

\* tg.save(fn); openTextGrid(fn)
SaveAndOpen ==
    /\ calls = 0
    /\ \E saved \in save(tg) :
          /\ tg' = saved.tg
          /\ ret' = [op |-> "save", before |-> tg, exc |-> saved.exc, outputTxt |-> saved.outputTxt,
                     opened |-> IF saved.exc = "none" THEN openTextGrid(saved.outputTxt)
                                ELSE Left("not opened", Textgrid)]
    /\ calls' = calls + 1
    /\ UNCHANGED <<py, name, entryList, minTimestamp, maxTimestamp, result>>

NextSave == SaveAndOpen

SpecSave == InitQuery /\ [][NextSave]_vars

----------------------------------------------------------------------------
(* A Textgrid returned by mergeTiers or removeLabels, and insertEntry or  *)
(* eraseInterval on one of its tiers. A tier that is the very object the  *)
(* source Textgrid holds changes in both.                                 *)

\* the lists of tier names handed to mergeTiers and removeLabels
NameLists == {None, Some(<<<<"x">>>>), Some(<<<<"y">>>>)}

Returned(record, left, same) ==
    /\ calls = 0
    /\ result' = [exc |-> left.exc, tg |-> left.tg, same |-> IF left.exc = "none" THEN same ELSE {}]
    /\ ret' = record
    /\ calls' = calls + 1
    /\ UNCHANGED <<py, name, entryList, minTimestamp, maxTimestamp, tg>>

\* result = tg.mergeTiers(None, tierList, preserveOtherTiers)
MergeTiersReturns ==
    /\ calls = 0
    /\ \E tierList \in NameLists, preserveOtherTiers \in BOOLEAN :
          \E o \in mergeTiers(tg, None, tierList, preserveOtherTiers) :
              Returned([op |-> "mergeTiers", tierNameList |-> tierList,
                        preserveOtherTiers |-> preserveOtherTiers, source |-> tg],
                       o, mergeTiersSame(tg, tierList, preserveOtherTiers))

\* result = tg.removeLabels(label, tierNameList)
RemoveLabelsReturns ==
    /\ calls = 0
    /\ \E label \in {<< >>, <<"a">>}, tierNameList \in NameLists :
          /\ tierNameList # None => tierNameList[1][1] \in DOMAIN tg.tierDict
          /\ Returned([op |-> "removeLabels", label |-> label, tierNameList |-> tierNameList,
                       source |-> tg],
                      removeLabels(tg, label, tierNameList), removeLabelsSame(tg, tierNameList))

\* the tier of the result was changed in place; tg holds the tier too when it
\* is the same object
TierChanged(n, record, list) ==
    /\ result' = [result EXCEPT !.tg.tierDict[n].entryList = list]
    /\ tg' = IF n \in result.same THEN [tg EXCEPT !.tierDict[n].entryList = list] ELSE tg
    /\ ret' = record
    /\ calls' = calls + 1
    /\ UNCHANGED <<py, name, entryList, minTimestamp, maxTimestamp>>

\* result.tierDict[n].insertEntry(entry, False, collisionCode)
ResultInsertEntry ==
    /\ calls = 1 /\ result.exc = "none"
    /\ \E n \in DOMAIN result.tg.tierDict, entry \in EntryInputs, collisionCode \in InsertCodes :
          \E o \in insertEntry(result.tg.tierDict[n].entryList, entry, collisionCode) :
              TierChanged(n, [op |-> "insertEntry", tier |-> n, entry |-> entry,
                              collisionCode |-> collisionCode, exc |-> o.exc,
                              source |-> tg, called |-> ret], o.entryList)

\* result.tierDict[n].eraseInterval((start, stop), collisionCode)
ResultEraseInterval ==
    /\ calls = 1 /\ result.exc = "none"
    /\ \E n \in DOMAIN result.tg.tierDict, range \in Intervals, collisionCode \in EraseCodes :
          \E o \in eraseInterval(result.tg.tierDict[n].entryList, range[1], range[2], collisionCode) :
              TierChanged(n, [op |-> "eraseInterval", tier |-> n, startTime |-> range[1],
                              endTime |-> range[2], collisionCode |-> collisionCode,
                              exc |-> o.exc, source |-> tg, called |-> ret], o.entryList)

NextAlias ==
    MergeTiersReturns \/ RemoveLabelsReturns \/ ResultInsertEntry \/ ResultEraseInterval

SpecAlias == InitTextgrid /\ [][NextAlias]_vars

----------------------------------------------------------------------------
(* PointTier.insertEntry and PointTier.editTimestamps on a constructed tier *)

PointLabels == {<<"a">>, <<"2">>, << >>}

PointInputs == {Point(t, l) : t \in Times, l \in PointLabels}

InitPoint ==
    /\ py \in PyBuilds
    /\ \E entries \in SeqsUpTo(PointInputs, MaxLen), maxT \in {None, Some(MaxTime)} :
          LET t == PointTierInit("tier", entries, None, maxT)
          IN /\ t.exc = "none"
             /\ name = t.name
             /\ entryList = t.entryList
             /\ minTimestamp = t.minTimestamp
             /\ maxTimestamp = t.maxTimestamp
    /\ tg = Textgrid /\ result = NoResult
    /\ ret = [op |-> "PointTier"]
    /\ calls = 0

\* tier.insertEntry(entry, False, collisionCode)
PointInsertEntry ==
    /\ calls = 0
    /\ \E entry \in PointInputs, collisionCode \in InsertCodes :
          LET o == pointInsertEntry(Self, entry, collisionCode)
          IN /\ entryList' = o.entryList
             /\ ret' = [op |-> "insertEntry", entry |-> entry, collisionCode |-> collisionCode,
                        before |-> entryList, matchList |-> o.matchList, exc |-> o.exc]
    /\ calls' = calls + 1
    /\ UNCHANGED <<py, name, minTimestamp, maxTimestamp, tg, result>>

\* tier.editTimestamps(offset, allowOvershoot)
PointEditTimestamps ==
    /\ calls = 0
    /\ \E offset \in Offsets, allowOvershoot \in BOOLEAN :
          ret' = [op |-> "editTimestamps", offset |-> offset, allowOvershoot |-> allowOvershoot,
                  result |-> pointEditTimestamps(Self, offset, allowOvershoot)]
    /\ calls' = calls + 1
    /\ UNCHANGED <<py, name, entryList, minTimestamp, maxTimestamp, tg, result>>

NextPoint == PointInsertEntry \/ PointEditTimestamps

SpecPoint == InitPoint /\ [][NextPoint]_vars

----------------------------------------------------------------------------
(* intervalOverlapCheck on two intervals *)

\* percentThreshold as the fraction <<pNum, pDen>>: 0, 0.5 and 1
PercentThresholds == {<<0, 1>>, <<1, 2>>, <<1, 1>>}

TimeThresholds == 0 .. MaxTime

InitOverlap ==
    /\ py \in PyBuilds
    /\ name = "" /\ entryList = << >> /\ minTimestamp = 0 /\ maxTimestamp = 0
    /\ tg = Textgrid /\ result = NoResult
    /\ \E a, b \in Intervals, percentThreshold \in PercentThresholds,
          timeThreshold \in TimeThresholds, boundaryInclusive \in BOOLEAN :
          ret = [op |-> "intervals",
                 interval |-> Tuple(a[1], a[2], << >>), cmprInterval |-> Tuple(b[1], b[2], << >>),
                 percentThreshold |-> percentThreshold, timeThreshold |-> timeThreshold,
                 boundaryInclusive |-> boundaryInclusive]
    /\ calls = 0

\* intervalOverlapCheck(interval, cmprInterval, ...) and
\* intervalOverlapCheck(cmprInterval, interval, ...)
IntervalOverlapCheck ==
    /\ calls = 0
    /\ ret' = [ret EXCEPT !.op = "intervalOverlapCheck"] @@
              [overlapFlag |->
                  intervalOverlapCheck(ret.interval, ret.cmprInterval, ret.percentThreshold[1],
                                       ret.percentThreshold[2], ret.timeThreshold, ret.boundaryInclusive),
               swapped |->
                  intervalOverlapCheck(ret.cmprInterval, ret.interval, ret.percentThreshold[1],
                                       ret.percentThreshold[2], ret.timeThreshold, ret.boundaryInclusive)]
    /\ calls' = calls + 1
    /\ UNCHANGED <<py, name, entryList, minTimestamp, maxTimestamp, tg, result>>

NextOverlap == IntervalOverlapCheck

SpecOverlap == InitOverlap /\ [][NextOverlap]_vars

----------------------------------------------------------------------------
(* Morphing a constructed tier to a target tier *)

\* the labels of the tier that is morphed: speech, and the two silences
MorphLabels == {<<"a">>, <<"s", "p">>, << >>}

\* entry lists in time order without overlap, as a tier of an annotation has
\* them, with labels from S
RECURSIVE Chains(_, _, _)
Chains(S, from, n) ==
    {<< >>} \cup
    IF n = 0 THEN {}
    ELSE UNION {{<<Tuple(p[1], p[2], l)>> \o rest : rest \in Chains(S, p[2], n - 1)} :
                   p \in {q \in Intervals : q[1] >= from}, l \in S}

InitMorph ==
    /\ py \in PyBuilds
    /\ \E entries \in Chains(MorphLabels, 0, MaxLen), minT \in {None, Some(0)}, maxT \in {None, Some(MaxTime)} :
          Constructed(entries, minT, maxT)

Morph ==
    /\ calls = 0
    /\ \E entries \in Chains({<<"b">>}, 0, MaxLen) :
        LET targetTier == IntervalTierInit("target", entries, Some(0), Some(MaxTime))
        IN ret' = [op |-> "morph", targetTier |-> TierOf(targetTier),
                   result |-> morph(Self, TierOf(targetTier))]
    /\ calls' = calls + 1
    /\ UNCHANGED <<py, name, entryList, minTimestamp, maxTimestamp, tg, result>>

NextMorph == Morph

SpecMorph == InitMorph /\ [][NextMorph]_vars

----------------------------------------------------------------------------
(* One mutation of a constructed tier whose entries do not overlap *)

InitDisjoint ==
    /\ py \in PyBuilds
    /\ \E chain \in Chains(RawLabels, 0, MaxLen), minT \in {None, Some(0)}, maxT \in {None, Some(MaxTime)} :
          \E entries \in Rearrangements(chain) : Constructed(entries, minT, maxT)

InsertOnce == calls = 0 /\ InsertEntry

EraseOnce == calls = 0 /\ EraseInterval

NextDisjoint == InsertOnce \/ EraseOnce

SpecDisjoint == InitDisjoint /\ [][NextDisjoint]_vars

----------------------------------------------------------------------------
(* insertEntry or eraseInterval on a tier of a Textgrid, then Textgrid.save. *)
(* addTier stores the tier it is given, so the Textgrid holds the tier that  *)
(* is changed.                                                               *)

\* the tier named n of tg was changed in place
TgTierChanged(n, record, list) ==
    /\ tg' = [tg EXCEPT !.tierDict[n].entryList = list]
    /\ ret' = record
    /\ calls' = calls + 1
    /\ UNCHANGED <<py, name, entryList, minTimestamp, maxTimestamp, result>>

\* tg.tierDict[n].insertEntry(entry, False, collisionCode)
TgInsertEntry ==
    /\ calls = 0
    /\ \E n \in DOMAIN tg.tierDict, entry \in EntryInputs, collisionCode \in InsertCodes :
          \E o \in insertEntry(tg.tierDict[n].entryList, entry, collisionCode) :
              TgTierChanged(n, [op |-> "insertEntry", tier |-> n, entry |-> entry,
                                collisionCode |-> collisionCode, exc |-> o.exc, before |-> tg],
                            o.entryList)

\* tg.tierDict[n].eraseInterval((start, stop), collisionCode)
TgEraseInterval ==
    /\ calls = 0
    /\ \E n \in DOMAIN tg.tierDict, range \in Intervals, collisionCode \in EraseCodes :
          \E o \in eraseInterval(tg.tierDict[n].entryList, range[1], range[2], collisionCode) :
              TgTierChanged(n, [op |-> "eraseInterval", tier |-> n, startTime |-> range[1],
                                endTime |-> range[2], collisionCode |-> collisionCode,
                                exc |-> o.exc, before |-> tg],
                            o.entryList)

\* tg.save(fn), on the Textgrid as built or after the one change
Save ==
    /\ calls <= 1 /\ ret.op # "save"
    /\ \E saved \in save(tg) :
          /\ tg' = saved.tg
          /\ ret' = [op |-> "save", before |-> tg, changed |-> (calls = 1), after |-> ret,
                     exc |-> saved.exc]
    /\ calls' = 2
    /\ UNCHANGED <<py, name, entryList, minTimestamp, maxTimestamp, result>>

NextChangeSave == TgInsertEntry \/ TgEraseInterval \/ Save

SpecChangeSave == InitQuery /\ [][NextChangeSave]_vars

----------------------------------------------------------------------------
(* == on two constructed tiers, and on the Textgrids that hold them *)

\* IntervalTier("x", entries, minT, maxT) for entries in time order
ComparedTiers ==
    {TierOf(IntervalTierInit(<<"x">>, c[1], c[2], c[3])) :
        c \in {d \in Chains(Labels, 0, MaxLen) \X {None, Some(0)} \X {None, Some(MaxTime)} :
                  IntervalTierInit(<<"x">>, d[1], d[2], d[3]).exc = "none"}}

InitEq ==
    /\ py \in PyBuilds
    /\ \E self, other \in ComparedTiers :
          /\ name = self.name /\ entryList = self.entryList
          /\ minTimestamp = self.minTimestamp /\ maxTimestamp = self.maxTimestamp
          /\ ret = [op |-> "IntervalTier", other |-> other]
    /\ tg = Textgrid /\ result = NoResult
    /\ calls = 0

\* self == other
TierEq ==
    /\ calls = 0
    /\ ret' = [op |-> "tier ==", other |-> ret.other,
               isEqual |-> TextgridTier__eq__(Self, ret.other)]
    /\ calls' = calls + 1
    /\ UNCHANGED <<py, name, entryList, minTimestamp, maxTimestamp, tg, result>>

\* tgSelf == tgOther, each the Textgrid addTier makes of one of the tiers
TextgridEq ==
    /\ calls = 0
    /\ ret' = [op |-> "textgrid ==", other |-> ret.other,
               isEqual |-> Textgrid__eq__(TextgridOf(<<Self>>), TextgridOf(<<ret.other>>))]
    /\ calls' = calls + 1
    /\ UNCHANGED <<py, name, entryList, minTimestamp, maxTimestamp, tg, result>>

NextEq == TierEq \/ TextgridEq

SpecEq == InitEq /\ [][NextEq]_vars

----------------------------------------------------------------------------
(* Vocabulary of the properties *)

\* the (start, end, label) an entry stands for, whatever Python object holds it
Triple(e) == <<e.start, e.stop, e.label>>

Triples(list) == [i \in 1 .. Len(list) |-> Triple(list[i])]

\* the duration two spans share
OverlapDuration(a, b) == Min2(a.stop, b.stop) - Max2(a.start, b.start)

Overlapping(list, e) == SelectSeq(list, LAMBDA x : OverlapDuration(x, e) > 0)

NonOverlapping(list, e) == SelectSeq(list, LAMBDA x : ~(OverlapDuration(x, e) > 0))

Starts(list) == [i \in 1 .. Len(list) |-> list[i].start]

Stops(list) == [i \in 1 .. Len(list) |-> list[i].stop]

LabelsOf(list) == [i \in 1 .. Len(list) |-> list[i].label]

IsSortedByStart(list) == \A i \in 1 .. Len(list) - 1 : list[i].start <= list[i + 1].start

Count(x, list) == Cardinality({i \in 1 .. Len(list) : list[i] = x})

\* the two sequences hold the same elements, each as often
SameBag(s, t) ==
    /\ Len(s) = Len(t)
    /\ \A i \in 1 .. Len(s) : Count(s[i], s) = Count(s[i], t)

RemoveAt(list, k) == SubSeq(list, 1, k - 1) \o SubSeq(list, k + 1, Len(list))

Window(s, e) == [start |-> s, stop |-> e]

WhollyInside(x, w) == w.start <= x.start /\ x.stop <= w.stop

\* the last call was insertEntry or eraseInterval
Mutated == ret.op \in {"insertEntry", "eraseInterval"}

InsertedWith(code) ==
    /\ ret.op = "insertEntry"
    /\ ret.collisionCode # None
    /\ Lower(ret.collisionCode[1]) = code

----------------------------------------------------------------------------
(* Properties of insertEntry and eraseInterval, under Spec *)

\* C1: bounds containment. Every entry of a tier reached by construction and
\* any insertEntry / eraseInterval calls has minTimestamp <= start and
\* end <= maxTimestamp.
C1_BoundsContainment ==
    \A i \in 1 .. Len(entryList) :
        minTimestamp <= entryList[i].start /\ entryList[i].stop <= maxTimestamp

\* C2: sortedness. After every insertEntry or eraseInterval call that returns
\* normally the entry list is non-decreasing by start time.
C2_SortedAfterMutation ==
    (Mutated /\ ret.exc = "none") => IsSortedByStart(entryList)

\* C3: insertEntry with no collision policy, or an unrecognized one, on an
\* entry that overlaps existing entries raises TextgridCollisionException with
\* the tier name, the attempted entry and exactly the overlapping entries, and
\* leaves the entry list unchanged.
C3_CollisionErrorByDefault ==
    (/\ ret.op = "insertEntry"
     /\ Len(Overlapping(ret.before, ret.entry)) > 0
     /\ ~InsertedWith("replace")
     /\ ~InsertedWith("merge"))
    => /\ ret.exc = "TextgridCollisionException"
       /\ ret.excArgs = [tierName |-> name, insertInterval |-> ret.entry,
                         collisionList |-> Overlapping(ret.before, ret.entry)]
       /\ entryList = ret.before

\* C4: insertEntry with 'merge' and at least one overlapping entry removes the
\* overlapping entries and adds exactly one entry, from the least start to the
\* greatest end of the overlapping entries and the new one, labelled with
\* their labels joined by '-' in ascending start order; the other entries stay.
C4_MergeFusesOverlaps ==
    (InsertedWith("merge") /\ Len(Overlapping(ret.before, ret.entry)) > 0)
    => LET group == Append(Overlapping(ret.before, ret.entry), ret.entry)
           orders == {o \in Rearrangements(group) : IsSortedByStart(o)}
       IN \E k \in 1 .. Len(entryList) :
             /\ entryList[k].start = SeqMin(Starts(group))
             /\ entryList[k].stop = SeqMax(Stops(group))
             /\ \E o \in orders : entryList[k].label = Join(<<"-">>, LabelsOf(o))
             /\ SameBag(RemoveAt(entryList, k), NonOverlapping(ret.before, ret.entry))

\* C10: eraseInterval((s, e), 'truncate') removes every entry overlapping
\* [s, e) and puts back both remnants when non-empty: (firstStart, s,
\* firstLabel) if the first overlapping entry starts before s and (e, lastEnd,
\* lastLabel) if the last one ends after e, also when one entry is both.
C10_TruncateKeepsBothRemnants ==
    (/\ ret.op = "eraseInterval"
     /\ ret.collisionCode = Some("truncate")
     /\ ret.exc = "none"
     /\ Len(Overlapping(ret.before, Window(ret.startTime, ret.endTime))) > 0)
    => LET w == Window(ret.startTime, ret.endTime)
           ov == Overlapping(ret.before, w)
           first == ov[1]
           last == ov[Len(ov)]
           remnants ==
               (IF first.start < w.start
                THEN <<<<first.start, w.start, first.label>>>> ELSE << >>)
               \o (IF last.stop > w.stop
                   THEN <<<<w.stop, last.stop, last.label>>>> ELSE << >>)
       IN SameBag(Triples(entryList), Triples(NonOverlapping(ret.before, w)) \o remnants)

----------------------------------------------------------------------------
(* Properties of crop, under SpecCrop *)

\* the last call was crop with these flags
Cropped(strictFlag, softFlag) ==
    ret.op = "crop" /\ ret.strictFlag = strictFlag /\ ret.softFlag = softFlag

CropWindow == Window(ret.cropStart, ret.cropEnd)

\* the last call was crop of the example tier to the window [3, 12)
CroppedExample(strictFlag, softFlag) ==
    /\ Cropped(strictFlag, softFlag)
    /\ Triples(entryList) = <<<<0, 5, <<"a">>>>, <<5, 10, <<"b">>>>, <<10, 15, <<"c">>>>>>
    /\ ret.cropStart = 3
    /\ ret.cropEnd = 12

\* an entry cut down to the window
Clipped(x, w) == <<Max2(x.start, w.start), Min2(x.stop, w.stop), x.label>>

\* the entries that reach into the window without lying wholly inside it
Partial(list, w) == SelectSeq(Overlapping(list, w), LAMBDA x : ~WhollyInside(x, w))

\* C5: crop(start, end, strict=False, soft=False) with start < end returns, in
\* the original order, exactly (max(entryStart, start), min(entryEnd, end),
\* label) for each entry whose overlap with the window has positive duration;
\* the example tier cropped to [3, 12) gives (3,5,a), (5,10,b), (10,12,c).
C5_CropTruncates ==
    /\ (Cropped(FALSE, FALSE) /\ ret.cropStart < ret.cropEnd)
       => /\ ret.result.exc = "none"
          /\ LET kept == Overlapping(entryList, CropWindow)
             IN Triples(ret.result.subTier.entryList)
                    = [i \in 1 .. Len(kept) |-> Clipped(kept[i], CropWindow)]
    /\ CroppedExample(FALSE, FALSE)
       => Triples(ret.result.subTier.entryList)
              = <<<<3, 5, <<"a">>>>, <<5, 10, <<"b">>>>, <<10, 12, <<"c">>>>>>

\* C5 witness: a crop that dropped an entry, cut one and kept one whole
C5_Witness ==
    /\ Cropped(FALSE, FALSE)
    /\ ret.cropStart < ret.cropEnd
    /\ ret.result.exc = "none"
    /\ Len(entryList) = 2
    /\ Len(ret.result.subTier.entryList) = 1
    /\ Triple(ret.result.subTier.entryList[1]) \notin {Triple(entryList[1]), Triple(entryList[2])}

\* C6 as stated: the example tier cropped to [3, 12) with strict and soft
\* false reports cutStart = 2, cutEnd = 3, cutWithin = 0.
C6_ExampleAccountingAsStated ==
    CroppedExample(FALSE, FALSE)
    => ret.result.cutTStart = 2 /\ ret.result.cutTEnd = 3 /\ ret.result.cutTWithin = 0

\* C6 amended: the example tier cropped to [3, 12) with strict and soft false
\* reports cutStart = 3 (the part of (0,5,a) before the window), cutEnd = 3
\* and cutWithin = 0.
C6_ExampleAccounting ==
    CroppedExample(FALSE, FALSE)
    => ret.result.cutTStart = 3 /\ ret.result.cutTEnd = 3 /\ ret.result.cutTWithin = 0

\* C6 witness: the example crop has returned
C6_Witness == CroppedExample(FALSE, FALSE) /\ ret.result.exc = "none"

C8_CropRebasesBounds ==
    (ret.op = "crop" /\ ret.result.exc = "none")
    => /\ ret.result.subTier.minTimestamp = 0
       /\ ret.result.subTier.maxTimestamp = ret.cropEnd - ret.cropStart

\* C9: crop with soft=True never truncates: every entry partially inside the
\* window, also one that extends beyond it on both sides, is in the result
\* unchanged, and every entry of the result is an entry of the input.
C9_SoftNeverTruncates ==
    (ret.op = "crop" /\ ret.softFlag /\ ret.result.exc = "none")
    => LET out == Triples(ret.result.subTier.entryList)
           part == Triples(Partial(entryList, CropWindow))
       IN /\ \A i \in 1 .. Len(part) : Count(part[i], out) >= Count(part[i], part)
          /\ \A i \in 1 .. Len(out) : Count(out[i], Triples(entryList)) > 0

----------------------------------------------------------------------------
(* Properties of editTimestamps and getNonEntries, under SpecTier *)

\* the entries editTimestamps is to return: each entry shifted, its start not
\* below 0, when its shifted end is not negative
Shifted(list, startOffset, stopOffset) ==
    LET kept == SelectSeq(list, LAMBDA x : x.stop + stopOffset >= 0)
    IN [i \in 1 .. Len(kept) |->
           <<Max2(0, kept[i].start + startOffset), kept[i].stop + stopOffset, kept[i].label>>]

\* C11: editTimestamps(startOffset, endOffset, allowOvershoot=True) succeeds
\* for every tier and every pair of offsets and returns, in the original
\* order, exactly (max(0, start+startOffset), end+endOffset, label) for each
\* entry whose shifted end is not negative.
C11_EditTimestampsShifts ==
    (ret.op = "editTimestamps" /\ ret.allowOvershoot)
    => /\ ret.result.exc = "none"
       /\ Triples(ret.result.entryList) = Shifted(entryList, ret.startOffset, ret.stopOffset)

\* the unit cell [k, k+1) lies under no entry
Uncovered(list, k) == \A i \in 1 .. Len(list) : ~(list[i].start <= k /\ k + 1 <= list[i].stop)

\* the maximal sub-intervals of [lo, hi] under no entry
MaximalGaps(list, lo, hi) ==
    {g \in (lo .. hi) \X (lo .. hi) \X {<< >>} :
        /\ g[1] < g[2]
        /\ \A k \in g[1] .. g[2] - 1 : Uncovered(list, k)
        /\ g[1] = lo \/ ~Uncovered(list, g[1] - 1)
        /\ g[2] = hi \/ ~Uncovered(list, g[2])}

PairwiseDisjoint(list) ==
    \A i, j \in 1 .. Len(list) : i # j => ~(OverlapDuration(list[i], list[j]) > 0)

\* C12: for a tier with at least one entry whose entries are sorted and
\* pairwise non-overlapping, getNonEntries returns exactly the maximal
\* positive-width sub-intervals of [minTimestamp, maxTimestamp] that no entry
\* covers, each with an empty label and each once.
C12_NonEntriesAreTheGaps ==
    (/\ ret.op = "getNonEntries"
     /\ Len(entryList) >= 1
     /\ IsSortedByStart(entryList)
     /\ PairwiseDisjoint(entryList))
    => /\ ret.result.exc = "none"
       /\ LET gaps == Triples(ret.result.invertedEntryList)
          IN /\ {gaps[i] : i \in 1 .. Len(gaps)} = MaximalGaps(entryList, minTimestamp, maxTimestamp)
             /\ Len(gaps) = Cardinality(MaximalGaps(entryList, minTimestamp, maxTimestamp))

----------------------------------------------------------------------------
(* Properties of _fillInBlanks, under SpecFill *)

\* the last call was _fillInBlanks(t) with the default times
FilledByDefault ==
    ret.op = "_fillInBlanks" /\ ret.startTime = None /\ ret.endTime = None

FilledWithin ==
    /\ ret.op = "_fillInBlanks"
    /\ calls = 1
    /\ ret.startTime # None
    /\ ret.endTime # None
    /\ ret.startTime[1] <= ret.endTime[1]
    /\ IsSortedByStart(ret.before)
    /\ PairwiseDisjoint(ret.before)
    /\ \A i \in 1 .. Len(ret.before) :
          WhollyInside(ret.before[i], Window(ret.startTime[1], ret.endTime[1]))

\* the entries run from s to e, each ending where the next starts
Contiguous(list, s, e) ==
    /\ Len(list) >= 1
    /\ list[1].start = s
    /\ list[Len(list)].stop = e
    /\ \A i \in 1 .. Len(list) - 1 : list[i].stop = list[i + 1].start

IsIn(x, list) == \E i \in 1 .. Len(list) : list[i] = x

\* C14 as stated: gap-fill coverage. The result starts at startTime, ends at
\* endTime, has each entry's end equal to the next entry's start, and its
\* entries with a non-empty label are exactly the original entries in the
\* original order.
C14_FillCoversAsStated ==
    FilledWithin
    => /\ ret.exc = "none"
       /\ Contiguous(entryList, ret.startTime[1], ret.endTime[1])
       /\ SelectSeq(entryList, LAMBDA x : x.label # << >>) = ret.before

\* C14 amended: when startTime < endTime, the result starts at startTime, ends
\* at endTime, has each entry's end equal to the next entry's start, and
\* consists of the original entries in the original order and of entries with
\* an empty label.
C14_FillCovers ==
    (FilledWithin /\ ret.startTime[1] < ret.endTime[1])
    => /\ ret.exc = "none"
       /\ Contiguous(entryList, ret.startTime[1], ret.endTime[1])
       /\ SelectSeq(entryList, LAMBDA x : IsIn(x, ret.before)) = ret.before
       /\ \A i \in 1 .. Len(entryList) :
             ~IsIn(entryList[i], ret.before) => entryList[i].label = << >>

\* C14 witness: two entries, one of them with an empty label, and gaps filled
\* around them
C14_Witness ==
    /\ FilledWithin
    /\ ret.exc = "none"
    /\ Len(ret.before) = 2
    /\ \E i \in 1 .. 2 : ret.before[i].label = << >>
    /\ Len(entryList) > 2

----------------------------------------------------------------------------
(* Properties of the Textgrid's tier list, under SpecTextgrid *)

NoDuplicates(list) == \A i, j \in 1 .. Len(list) : i # j => list[i] # list[j]

\* C16: addTier with a tier whose name is already present fails and leaves the
\* Textgrid unchanged; after any sequence of addTier, removeTier, renameTier
\* and replaceTier calls, failing ones included, tierNameList holds no name
\* twice and is exactly the key set of tierDict.
C16_AddTierRejectsDuplicates ==
    /\ (ret.op = "addTier" /\ ret.args[1].name \in DOMAIN ret.before.tierDict)
       => (ret.exc # "none" /\ tg = ret.before)
    /\ NoDuplicates(tg.tierNameList)
    /\ {tg.tierNameList[i] : i \in 1 .. Len(tg.tierNameList)} = DOMAIN tg.tierDict

\* C17: after any sequence of addTier, removeTier, renameTier and replaceTier
\* calls that leaves at least one tier, the Textgrid's minTimestamp is the
\* minimum of its tiers' minTimestamp and its maxTimestamp the maximum of
\* their maxTimestamp.
C17_BoundsAreTiersBounds ==
    DOMAIN tg.tierDict # {}
    => /\ tg.minTimestamp # None
       /\ tg.maxTimestamp # None
       /\ \A n \in DOMAIN tg.tierDict :
             /\ tg.minTimestamp[1] <= tg.tierDict[n].minTimestamp
             /\ tg.maxTimestamp[1] >= tg.tierDict[n].maxTimestamp
       /\ \E n \in DOMAIN tg.tierDict : tg.minTimestamp[1] = tg.tierDict[n].minTimestamp
       /\ \E n \in DOMAIN tg.tierDict : tg.maxTimestamp[1] = tg.tierDict[n].maxTimestamp

----------------------------------------------------------------------------
(* Properties of Textgrid.crop, under SpecTgCrop *)

\* the window the call is to use: a time that was omitted is the Textgrid's
\* bound
DefaultedWindow ==
    Window(IF ret.startTime = None THEN tg.minTimestamp[1] ELSE ret.startTime[1],
           IF ret.endTime = None THEN tg.maxTimestamp[1] ELSE ret.endTime[1])

\* C18: Textgrid.crop(strict, soft) with a time of the window omitted uses the
\* Textgrid's own bound for it, minTimestamp for the start and maxTimestamp
\* for the end, also when only the end is omitted; every tier is cropped to
\* that window, in the Textgrid's tier order.
C18_CropDefaultsToBounds ==
    (/\ ret.op = "Textgrid.crop"
     /\ Len(tg.tierNameList) >= 1
     /\ ret.startTime = None \/ ret.endTime = None
     /\ DefaultedWindow.start < DefaultedWindow.stop)
    => /\ ret.result.exc = "none"
       /\ ret.result.tg.tierNameList = tg.tierNameList
       /\ \A n \in DOMAIN tg.tierDict :
             LET w == DefaultedWindow
                 alone == crop(tg.tierDict[n].entryList, n, w.start, w.stop,
                               ret.strictFlag, ret.softFlag).subTier
             IN /\ n \in DOMAIN ret.result.tg.tierDict
                /\ SameBag(Triples(ret.result.tg.tierDict[n].entryList), Triples(alone.entryList))

----------------------------------------------------------------------------
(* Properties of getContainedLabels, under SpecContained *)

\* C20: getContainedLabels(superTier) returns, for every entry (s, e) of the
\* super tier and every other tier, exactly the list of that tier's entries
\* with s <= start and end <= e, in tier order, whether the tier's entries are
\* sorted or not and whether they overlap or not.
C20_ContainedLabelsAreTheNested ==
    (ret.op = "getContainedLabels" /\ ret.superTier \in DOMAIN tg.tierDict)
    => /\ ret.result.exc = "none"
       /\ LET super == tg.tierDict[ret.superTier].entryList
          IN /\ Len(ret.result.returnList) = Len(super)
             /\ \A i \in 1 .. Len(super) :
                   /\ DOMAIN ret.result.returnList[i] = DOMAIN tg.tierDict \ {ret.superTier}
                   /\ \A n \in DOMAIN tg.tierDict \ {ret.superTier} :
                         Triples(ret.result.returnList[i][n])
                             = Triples(SelectSeq(tg.tierDict[n].entryList,
                                                 LAMBDA x : WhollyInside(x, super[i])))

----------------------------------------------------------------------------
(* Properties of mergeTiers, under SpecMerge *)

\* the tiers the last call merged, and the name of the merged tier
MergedTierList == IF ret.tierList = None THEN tg.tierNameList ELSE ret.tierList[1]

MergedName == Join(<<"/">>, MergedTierList)

\* the last call was mergeTiers and it returned a Textgrid
Merged == ret.op = "mergeTiers" /\ ret.result.exc = "none"

\* the merged tier's entries
MergedEntries == ret.result.tg.tierDict[MergedName].entryList

\* the entries of the merged tiers that includeFunc lets through, sorted
IncludedEntries ==
    Sorted(SelectSeq(ExtendAll(tg, MergedTierList), LAMBDA x : Include(ret.includeFunc, x)))

\* the included entries whose span lies inside the merged entry m
FusedInto(m) == SelectSeq(IncludedEntries, LAMBDA x : WhollyInside(x, m))

\* the merged entries are sorted by start and share no duration, every
\* included entry lies inside exactly one of them, and each spans exactly the
\* union of the entries inside it
MergedSpans ==
    /\ IsSortedByStart(MergedEntries)
    /\ PairwiseDisjoint(MergedEntries)
    /\ \A i \in 1 .. Len(IncludedEntries) :
          Cardinality({j \in 1 .. Len(MergedEntries) :
                          WhollyInside(IncludedEntries[i], MergedEntries[j])}) = 1
    /\ \A j \in 1 .. Len(MergedEntries) :
          LET m == MergedEntries[j]
              fused == FusedInto(m)
          IN /\ Len(fused) >= 1
             /\ m.start = SeqMin(Starts(fused))
             /\ m.stop = SeqMax(Stops(fused))
             /\ \A k \in m.start .. m.stop - 1 : ~Uncovered(fused, k)

\* C19 as stated: in the merged tier produced by mergeTiers, entries are
\* sorted by start, no two overlap with positive duration, every included
\* input entry's span lies inside exactly one merged entry, each merged
\* entry's span is the union of the input spans fused into it, and its label
\* is the ' / '-join of their labels in sorted order.
C19_MergeFusesAsStated ==
    /\ ret.op = "mergeTiers" => ret.result.exc = "none"
    /\ Merged
       => /\ MergedSpans
          /\ \A j \in 1 .. Len(MergedEntries) :
                MergedEntries[j].label
                    = Join(<<" ", "/", " ">>, LabelsOf(FusedInto(MergedEntries[j])))

\* C19 amended: the same, the label being the ' / '-join of their labels in
\* sorted order with the whitespace at its two ends stripped.
C19_MergeFuses ==
    /\ ret.op = "mergeTiers" => ret.result.exc = "none"
    /\ Merged
       => /\ MergedSpans
          /\ \A j \in 1 .. Len(MergedEntries) :
                MergedEntries[j].label
                    = Strip(Join(<<" ", "/", " ">>, LabelsOf(FusedInto(MergedEntries[j]))))

\* C19 witness: three entries of two tiers fused into one
C19_Witness ==
    /\ Merged
    /\ Len(tg.tierNameList) = 2
    /\ ret.tierList = None
    /\ Len(IncludedEntries) = 3
    /\ Len(MergedEntries) = 1

----------------------------------------------------------------------------
(* Properties of Textgrid.save and openTextGrid, under SpecSave *)

\* no tier of the Textgrid holds an entry whose label is empty
NoEmptyLabels(g) ==
    \A n \in DOMAIN g.tierDict :
        \A i \in 1 .. Len(g.tierDict[n].entryList) : g.tierDict[n].entryList[i].label # << >>

\* the same name, the same bounds, and the same entries, each as often
SameTier(a, b) ==
    /\ a.name = b.name
    /\ a.minTimestamp = b.minTimestamp
    /\ a.maxTimestamp = b.maxTimestamp
    /\ SameBag(Triples(a.entryList), Triples(b.entryList))

\* C15: round trip. For a Textgrid whose tiers hold no empty label, save
\* followed by openTextGrid on the text written yields a Textgrid with the same
\* tier order and names (the tiers all being interval tiers), the same
\* Textgrid minTimestamp and maxTimestamp, the same minTimestamp and
\* maxTimestamp of each tier, and per tier the same entries, as the Textgrid
\* had before save was called.
C15_RoundTrip ==
    (ret.op = "save" /\ NoEmptyLabels(ret.before)) =>
        /\ ret.exc = "none"
        /\ ret.opened.exc = "none"
        /\ ret.opened.tg.tierNameList = ret.before.tierNameList
        /\ ret.opened.tg.minTimestamp = ret.before.minTimestamp
        /\ ret.opened.tg.maxTimestamp = ret.before.maxTimestamp
        /\ \A n \in DOMAIN ret.before.tierDict :
              SameTier(ret.opened.tg.tierDict[n], ret.before.tierDict[n])

----------------------------------------------------------------------------
(* Properties of the Textgrid a method returns, under SpecAlias *)

\* the entry lists of the tiers of a Textgrid
EntryListsOf(g) == [n \in DOMAIN g.tierDict |-> g.tierDict[n].entryList]

\* C21: no aliasing across Textgrids. After mergeTiers (with
\* preserveOtherTiers) or removeLabels (with a subset of the tier names)
\* returned a Textgrid, insertEntry or eraseInterval on any tier of the
\* returned Textgrid leaves the entry list of every tier of the source
\* Textgrid unchanged.
C21_NoAliasing ==
    ret.op \in {"insertEntry", "eraseInterval"} => EntryListsOf(tg) = EntryListsOf(ret.source)

----------------------------------------------------------------------------
(* More properties of insertEntry and eraseInterval, under Spec *)

\* C22: insertEntry and eraseInterval transform. The call leaves the entry
\* list of the tier it is called on exactly as it was before the call (the
\* changed entries being delivered in a new tier).
C22_ReceiverUnchanged == Mutated => entryList = ret.before

----------------------------------------------------------------------------
(* Properties of PointTier.insertEntry and editTimestamps, under SpecPoint *)

\* the points of the list at the time
PointsAt(list, time) == SelectSeq(list, LAMBDA x : x.time = time)

\* C23: point collisions. When the tier holds a point with the time of the
\* inserted point, insertEntry with 'replace' leaves exactly one point at that
\* time, carrying the new label; with 'merge' exactly one point, whose label is
\* oldLabel-newLabel; with any other policy it fails with
\* TextgridCollisionException and the entries are unchanged.
C23_PointCollision ==
    (ret.op = "insertEntry" /\ Len(PointsAt(ret.before, ret.entry.time)) = 1) =>
        LET old == PointsAt(ret.before, ret.entry.time)[1]
            now == PointsAt(entryList, ret.entry.time)
            code == IF ret.collisionCode = None THEN "" ELSE Lower(ret.collisionCode[1])
        IN CASE code = "replace" -> ret.exc = "none" /\ now = <<ret.entry>>
             [] code = "merge" ->
                  /\ ret.exc = "none"
                  /\ now = <<Point(ret.entry.time, Join(<<"-">>, <<old.label, ret.entry.label>>))>>
             [] OTHER -> ret.exc = "TextgridCollisionException" /\ entryList = ret.before

\* the points shifted by the offset, those shifted below 0 dropped
ShiftedPoints(list, offset) ==
    LET kept == SelectSeq(list, LAMBDA x : x.time + offset >= 0)
    IN [i \in 1 .. Len(kept) |-> Point(kept[i].time + offset, kept[i].label)]

\* C24: PointTier.editTimestamps(offset, allowOvershoot=True) on a tier with a
\* point whose shifted time is not negative succeeds, and returns a tier whose
\* entries are, in order, (time + offset, label) for every point with
\* time + offset >= 0, and whose bounds cover the bounds of the original tier.
C24_PointShift ==
    (/\ ret.op = "editTimestamps"
     /\ ret.allowOvershoot
     /\ Len(ShiftedPoints(entryList, ret.offset)) > 0) =>
        /\ ret.result.exc = "none"
        /\ ret.result.entryList = ShiftedPoints(entryList, ret.offset)
        /\ ret.result.minTimestamp <= minTimestamp
        /\ ret.result.maxTimestamp >= maxTimestamp

----------------------------------------------------------------------------
(* Properties of intervalOverlapCheck, under SpecOverlap *)

Checked == ret.op = "intervalOverlapCheck"

\* the share of the span the two intervals cover that they have in common is
\* below the percent threshold
BelowPercent ==
    OverlapDuration(ret.interval, ret.cmprInterval) * ret.percentThreshold[2]
        < ret.percentThreshold[1] * (Max2(ret.interval.stop, ret.cmprInterval.stop)
                                       - Min2(ret.interval.start, ret.cmprInterval.start))

C26_OverlapSymmetric == Checked => ret.overlapFlag = ret.swapped

\* C26 witness: two different intervals that only share a boundary, which
\* both orders report
C26_Witness ==
    /\ Checked
    /\ ret.boundaryInclusive
    /\ ret.interval.stop = ret.cmprInterval.start
    /\ ret.overlapFlag /\ ret.swapped

----------------------------------------------------------------------------
(* Properties of morph, under SpecMorph *)

Morphed == ret.op = "morph" /\ ret.result.exc = "none"

Duration(e) == e.stop - e.start

Silent(e) == e.label = <<"s", "p">> \/ e.label = << >>

\* entry i of the morphed tier is the source's entry i, re-timed: it has the
\* source's label, starts where entry i - 1 ends (at 0 for the first), and
\* lasts as long as the target's entry i, or as the source's if that is silent
MorphedEntry(i) ==
    LET e == ret.result.entryList[i]
    IN /\ e.label = entryList[i].label
       /\ e.start = IF i = 1 THEN 0 ELSE ret.result.entryList[i - 1].stop
       /\ Duration(e) = IF Silent(entryList[i]) THEN Duration(entryList[i])
                        ELSE Duration(ret.targetTier.entryList[i])

\* C27: morph(targetTier) returns a tier with exactly one entry per source
\* entry, in source order and with the source labels, laid out contiguously
\* from 0; entry i lasts as long as target entry i, except that a source
\* entry labelled 'sp' or '' keeps its own duration.
C27_MorphOnePerSource ==
    ret.op = "morph" =>
        /\ ret.result.exc = "none"
        /\ Len(ret.result.entryList) = Len(entryList)
        /\ \A i \in 1 .. Len(entryList) : MorphedEntry(i)

\* what morph does in every case: one entry per pair of a source entry and
\* the target entry at the same index
C27_MorphOnePerPair ==
    ret.op = "morph" =>
        /\ ret.result.exc = "none"
        /\ Len(ret.result.entryList) = Min2(Len(entryList), Len(ret.targetTier.entryList))
        /\ \A i \in 1 .. Len(ret.result.entryList) : MorphedEntry(i)

\* a morph in which a speech entry takes the target's duration and a silence
\* keeps its own
C27_Witness ==
    /\ Morphed
    /\ Len(ret.result.entryList) = 2
    /\ Silent(entryList[1]) /\ ~Silent(entryList[2])
    /\ Duration(entryList[2]) # Duration(ret.targetTier.entryList[2])
    /\ Duration(entryList[1]) # Duration(ret.targetTier.entryList[1])

----------------------------------------------------------------------------
(* Non-overlap under insertEntry and eraseInterval, under SpecDisjoint and Spec *)

\* C28: non-overlap is preserved by mutation. If no two entries of the tier
\* overlap with positive duration, then after any successful insertEntry (no
\* collision, 'replace' or 'merge') or eraseInterval ('truncate' or
\* 'categorical') still no two entries overlap with positive duration.
C28_NonOverlapPreserved ==
    (Mutated /\ ret.exc = "none" /\ PairwiseDisjoint(ret.before))
    => PairwiseDisjoint(entryList)

\* a mutation that removed or cut overlapped entries of a tier without
\* overlap and left a tier of at least two entries
C28_Witness ==
    /\ Mutated /\ ret.exc = "none"
    /\ PairwiseDisjoint(ret.before)
    /\ Len(ret.matchList) > 0
    /\ Len(entryList) >= 2
    /\ entryList # ret.before

----------------------------------------------------------------------------
(* save after insertEntry or eraseInterval, under SpecChangeSave *)

\* C29: for a Textgrid built with addTier from constructed interval tiers and
\* then changed by insertEntry and eraseInterval calls on those tiers, the
\* two assertions of fillInBlanks (first entry start >= startTime, last
\* entry end <= endTime) hold when save gap-fills each tier with the
\* Textgrid's bounds: save raises no AssertionError.
C29_SaveAssertionsHold == ret.op = "save" => ret.exc # "AssertionError"

\* save of a Textgrid as addTier built it: its assertions hold
C29_SaveAsBuilt == (ret.op = "save" /\ ~ret.changed) => ret.exc # "AssertionError"

\* a save that went through after an insertEntry that returned
C29_Witness ==
    /\ ret.op = "save" /\ ret.changed /\ ret.exc = "none"
    /\ ret.after.op = "insertEntry" /\ ret.after.exc = "none"

----------------------------------------------------------------------------
(* Properties of ==, under SpecEq *)

Compared == ret.op \in {"tier ==", "textgrid =="}

\* C30: tier equality is exact on entry sequences. TextgridTier.__eq__, and
\* with it Textgrid.__eq__, reports two tiers equal only if they have the
\* same number of entries: a tier whose entry list is a proper prefix of the
\* other's is reported as not equal.
C30_EqualOnlyIfSameLength ==
    (Compared /\ ret.isEqual) => Len(entryList) = Len(ret.other.entryList)

\* what == does report: tiers are equal only if they agree on name, bounds
\* and every entry up to the end of the shorter entry list
C30_EqualOnlyIfCommonPrefix ==
    (Compared /\ ret.isEqual)
    => /\ name = ret.other.name
       /\ minTimestamp = ret.other.minTimestamp /\ maxTimestamp = ret.other.maxTimestamp
       /\ \A i \in 1 .. Min2(Len(entryList), Len(ret.other.entryList)) :
             Triples(entryList)[i] = Triples(ret.other.entryList)[i]

====
